---- MODULE Spec2Model ----
(***************************************************************************)
(* Model of the module analysis pipeline of gcp_terraform_mcp_server:      *)
(* handlers/terraform_registry_handlers.py, analyze_module.                *)
(*                                                                         *)
(* A Python string is a sequence of symbols.  A symbol is one character,   *)
(* or a literal of the source (a keyword, a fixed message) kept whole.     *)
(***************************************************************************)
EXTENDS Integers, Sequences, FiniteSets, TLC

(***************************************************************************)
(* Bounds of the model.                                                    *)
(***************************************************************************)
MaxCalls == 2
MaxIdLen == 5
\* How far around the README limit the README lengths range.
Slack == 2
\* The most blocks a written .tf file holds.
MaxBlocks == 2

Calls == 1..MaxCalls
\* The invocation that runs alone in Spec.
Solo == {1}

(***************************************************************************)
(* Strings.                                                                *)
(***************************************************************************)
RECURSIVE SeqsUpTo(_, _)
SeqsUpTo(S, n) ==
    IF n = 0 THEN {<<>>}
    ELSE LET shorter == SeqsUpTo(S, n - 1)
         IN  shorter \cup {Append(s, x) : s \in {t \in shorter : Len(t) = n - 1}, x \in S}

\* str.split(sep) for a one-character separator: the segments between the
\* separators, empty segments included; a string with k separators has k+1.
RECURSIVE SplitFrom(_, _, _, _)
SplitFrom(s, sep, i, cur) ==
    IF i > Len(s) THEN <<cur>>
    ELSE IF s[i] = sep THEN <<cur>> \o SplitFrom(s, sep, i + 1, <<>>)
    ELSE SplitFrom(s, sep, i + 1, Append(cur, s[i]))

\* sep.join(list)
RECURSIVE Join(_, _)
Join(list, sep) ==
    IF list = <<>> THEN <<>>
    ELSE IF Len(list) = 1 THEN list[1]
    ELSE list[1] \o sep \o Join(Tail(list), sep)

\* str.split(sep, 2): at most two splits, the rest kept whole.
SplitAtMostTwice(s, sep) ==
    LET all == SplitFrom(s, sep, 1, <<>>)
    IN  IF Len(all) <= 3 THEN all
        ELSE <<all[1], all[2], Join(SubSeq(all, 3, Len(all)), <<sep>>)>>

Split(s, sep) == SplitFrom(s, sep, 1, <<>>)

\* s contains sub as a contiguous substring
Contains(s, sub) ==
    \E i \in 1..(Len(s) - Len(sub) + 1) : SubSeq(s, i, i + Len(sub) - 1) = sub

\* name.startswith(prefix)
StartsWith(name, prefix) ==
    /\ Len(name) >= Len(prefix)
    /\ SubSeq(name, 1, Len(prefix)) = prefix

\* dict.get(key, default)
Get(d, key, default) == IF key \in DOMAIN d THEN d[key] ELSE default

(***************************************************************************)
(* The inputs of analyze_module.                                           *)
(***************************************************************************)
IdAlphabet == {"a", "b", "/"}
ModuleIds == SeqsUpTo(IdAlphabet, MaxIdLen)

(***************************************************************************)
(* Pattern matching over the text of variables.tf and outputs.tf.          *)
(* \s is a space or a newline; a literal of a pattern is one symbol.       *)
(***************************************************************************)
Ws == {" ", "\n"}

\* The end of a greedy run \s* that starts at j: the first index >= j that
\* holds no whitespace, Len(t)+1 when the run reaches the end of t.
SkipWs(t, j) ==
    CHOOSE k \in j..(Len(t) + 1) :
        /\ (k = Len(t) + 1 \/ t[k] \notin Ws)
        /\ \A m \in j..(k - 1) : t[m] \in Ws

\* The end of a greedy run .* that is followed by c: the last c from j on.
IndexOfLast(t, j, c) ==
    LET at == {k \in j..Len(t) : t[k] = c}
    IN  IF at = {} THEN Len(t) + 1 ELSE CHOOSE k \in at : \A m \in at : m <= k

\* The end of a greedy run [^c]* that starts at j.
IndexOf(t, j, c) ==
    CHOOSE k \in j..(Len(t) + 1) :
        /\ (k = Len(t) + 1 \/ t[k] = c)
        /\ \A m \in j..(k - 1) : t[m] # c

NoMatch == [matched |-> FALSE]

\* keyword\s+"([^"]+)"\s*{([^}]*)}: the blank before '{' and the body may
\* be empty.
BlockAtLoose(t, i, keyword) ==
    IF i > Len(t) \/ t[i] # keyword THEN NoMatch
    ELSE LET q1 == SkipWs(t, i + 1) IN
    IF q1 = i + 1 \/ q1 > Len(t) \/ t[q1] # "\"" THEN NoMatch
    ELSE LET q2 == IndexOf(t, q1 + 1, "\"") IN
    IF q2 = q1 + 1 \/ q2 > Len(t) THEN NoMatch
    ELSE LET b1 == SkipWs(t, q2 + 1) IN
    IF b1 > Len(t) \/ t[b1] # "{" THEN NoMatch
    ELSE LET b2 == IndexOf(t, b1 + 1, "}") IN
    IF b2 > Len(t) THEN NoMatch
    ELSE [matched |-> TRUE,
          name |-> SubSeq(t, q1 + 1, q2 - 1),
          body |-> SubSeq(t, b1 + 1, b2 - 1),
          end |-> b2 + 1]

\* keyword\s+"([^"]+)"\s+{([^}]+)} tried at position i of t.  Every greedy
\* run is followed by a literal outside its class, so there is one way to
\* match: name and body are the two groups, end is the index after '}'.
BlockAt(t, i, keyword) ==
    IF i > Len(t) \/ t[i] # keyword THEN NoMatch
    ELSE LET q1 == SkipWs(t, i + 1) IN
    IF q1 = i + 1 \/ q1 > Len(t) \/ t[q1] # "\"" THEN NoMatch
    ELSE LET q2 == IndexOf(t, q1 + 1, "\"") IN
    IF q2 = q1 + 1 \/ q2 > Len(t) THEN NoMatch
    ELSE LET b1 == SkipWs(t, q2 + 1) IN
    IF b1 = q2 + 1 \/ b1 > Len(t) \/ t[b1] # "{" THEN NoMatch
    ELSE LET b2 == IndexOf(t, b1 + 1, "}") IN
    IF b2 = b1 + 1 \/ b2 > Len(t) THEN NoMatch
    ELSE [matched |-> TRUE,
          name |-> SubSeq(t, q1 + 1, q2 - 1),
          body |-> SubSeq(t, b1 + 1, b2 - 1),
          end |-> b2 + 1]

\* re.findall: the non-overlapping matches, leftmost first, as <<name, body>>.
RECURSIVE FindBlocksFrom(_, _, _)
FindBlocksFrom(t, i, keyword) ==
    IF i > Len(t) THEN <<>>
    ELSE LET m == BlockAt(t, i, keyword) IN
         IF m.matched THEN <<(<<m.name, m.body>>)>> \o FindBlocksFrom(t, m.end, keyword)
         ELSE FindBlocksFrom(t, i + 1, keyword)

\* re.search instead of re.findall: the first match only.
FindFirstBlock(t, keyword) ==
    LET all == FindBlocksFrom(t, 1, keyword)
    IN  IF all = <<>> THEN <<>> ELSE <<Head(all)>>

FindBlocks(t, keyword) == FindBlocksFrom(t, 1, keyword)

\* The literal taken up to the last double quote of the body.
DescriptionAtGreedy(b, i) ==
    IF i > Len(b) \/ b[i] # "description" THEN NoMatch
    ELSE LET e == SkipWs(b, i + 1) IN
    IF e = i + 1 \/ e > Len(b) \/ b[e] # "=" THEN NoMatch
    ELSE LET q1 == SkipWs(b, e + 1) IN
    IF q1 = e + 1 \/ q1 > Len(b) \/ b[q1] # "\"" THEN NoMatch
    ELSE LET q2 == IndexOfLast(b, q1 + 1, "\"") IN
    IF q2 = q1 + 1 \/ q2 > Len(b) THEN NoMatch
    ELSE [matched |-> TRUE, group |-> SubSeq(b, q1 + 1, q2 - 1)]

\* description\s+=\s+"([^"]+)" tried at position i of a block body.
DescriptionAt(b, i) ==
    IF i > Len(b) \/ b[i] # "description" THEN NoMatch
    ELSE LET e == SkipWs(b, i + 1) IN
    IF e = i + 1 \/ e > Len(b) \/ b[e] # "=" THEN NoMatch
    ELSE LET q1 == SkipWs(b, e + 1) IN
    IF q1 = e + 1 \/ q1 > Len(b) \/ b[q1] # "\"" THEN NoMatch
    ELSE LET q2 == IndexOf(b, q1 + 1, "\"") IN
    IF q2 = q1 + 1 \/ q2 > Len(b) THEN NoMatch
    ELSE [matched |-> TRUE, group |-> SubSeq(b, q1 + 1, q2 - 1)]

\* \battr\s+=\s+([^\n]+): the attribute name has to start a word.
RestOfLineAtWord(b, i, attr) ==
    IF i > Len(b) \/ b[i] # attr \/ (i > 1 /\ b[i - 1] \notin Ws) THEN NoMatch
    ELSE LET e == SkipWs(b, i + 1) IN
    IF e = i + 1 \/ e > Len(b) \/ b[e] # "=" THEN NoMatch
    ELSE LET w == SkipWs(b, e + 1) IN
    IF w = e + 1 \/ w > Len(b) THEN NoMatch
    ELSE [matched |-> TRUE, group |-> SubSeq(b, w, IndexOf(b, w, "\n") - 1)]

\* attr\s+=\s+([^\n]+) tried at position i of a block body.  The second \s+
\* is greedy and [^\n] overlaps \s in the space: when the whitespace run
\* reaches the end of the body the run gives back symbols until the group
\* can start on one that is no newline.
RestOfLineAt(b, i, attr) ==
    IF i > Len(b) \/ b[i] # attr THEN NoMatch
    ELSE LET e == SkipWs(b, i + 1) IN
    IF e = i + 1 \/ e > Len(b) \/ b[e] # "=" THEN NoMatch
    ELSE LET w == SkipWs(b, e + 1) IN
    IF w = e + 1 THEN NoMatch
    ELSE IF w <= Len(b)
         THEN [matched |-> TRUE, group |-> SubSeq(b, w, IndexOf(b, w, "\n") - 1)]
    ELSE LET starts == {s \in (e + 2)..Len(b) : b[s] # "\n"} IN
         IF starts = {} THEN NoMatch
         ELSE LET s == CHOOSE x \in starts : \A y \in starts : y <= x
              IN  [matched |-> TRUE, group |-> SubSeq(b, s, IndexOf(b, s, "\n") - 1)]

\* re.search: the match at the leftmost position that has one.
SearchDescription(b) ==
    LET hits == {i \in 1..Len(b) : DescriptionAt(b, i).matched} IN
    IF hits = {} THEN NoMatch
    ELSE DescriptionAt(b, CHOOSE i \in hits : \A j \in hits : i <= j)

SearchRestOfLine(b, attr) ==
    LET hits == {i \in 1..Len(b) : RestOfLineAt(b, i, attr).matched} IN
    IF hits = {} THEN NoMatch
    ELSE RestOfLineAt(b, CHOOSE i \in hits : \A j \in hits : i <= j, attr)

\* str.strip()
RECURSIVE LStrip(_)
LStrip(s) == IF s # <<>> /\ Head(s) \in Ws THEN LStrip(Tail(s)) ELSE s

RECURSIVE RStrip(_)
RStrip(s) ==
    IF s # <<>> /\ s[Len(s)] \in Ws THEN RStrip(SubSeq(s, 1, Len(s) - 1)) ELSE s

\* The value kept as matched.
NoStrip(s) == s

Strip(s) == RStrip(LStrip(s))

VariableOfNameOnly(name, block) == [k \in {"name"} |-> name]

\* The variable dict built from one (name, block) pair.
VariableOf(name, block) ==
    LET desc == SearchDescription(block)
        type == SearchRestOfLine(block, "type")
        default == SearchRestOfLine(block, "default")
        keys == {"name"}
                \cup (IF desc.matched THEN {"description"} ELSE {})
                \cup (IF type.matched THEN {"type"} ELSE {})
                \cup (IF default.matched THEN {"default"} ELSE {})
    IN  [k \in keys |->
            CASE k = "name" -> name
              [] k = "description" -> desc.group
              [] k = "type" -> Strip(type.group)
              [] k = "default" -> Strip(default.group)]

\* The output dict built from one (name, block) pair.
OutputOf(name, block) ==
    LET desc == SearchDescription(block)
        value == SearchRestOfLine(block, "value")
        keys == {"name"}
                \cup (IF desc.matched THEN {"description"} ELSE {})
                \cup (IF value.matched THEN {"value"} ELSE {})
    IN  [k \in keys |->
            CASE k = "name" -> name
              [] k = "description" -> desc.group
              [] k = "value" -> Strip(value.group)]

\* module_data["inputs"] after the loop over the blocks of variables.tf
ExtractInputs(content) ==
    LET var_blocks == FindBlocks(content, "variable")
    IN  [n \in 1..Len(var_blocks) |-> VariableOf(var_blocks[n][1], var_blocks[n][2])]

\* module_data["outputs"] after the loop over the blocks of outputs.tf
ExtractOutputs(content) ==
    LET out_blocks == FindBlocks(content, "output")
    IN  [n \in 1..Len(out_blocks) |-> OutputOf(out_blocks[n][1], out_blocks[n][2])]

(***************************************************************************)
(* The report (lines 256-290).                                             *)
(***************************************************************************)
ReadmeLimit == 2000

TruncationSuffix == <<"...", "\n", "\n", "(README truncated due to length)">>

\* input_var.get(key) without a default: an absent field shows as None.
RECURSIVE InputLinesNone(_)
InputLinesNone(inputs) ==
    IF inputs = <<>> THEN <<>>
    ELSE LET input_var == Head(inputs)
         IN  << <<"### ">> \o Get(input_var, "name", <<>>),
                <<"- **Description:** ">> \o Get(input_var, "description", <<"None">>),
                <<"- **Type:** ">> \o Get(input_var, "type", <<"None">>),
                <<"- **Default:** ">> \o Get(input_var, "default", <<"None">>) \o <<"\n">> >>
             \o InputLinesNone(Tail(inputs))

\* The lines appended for the inputs, one group of four per variable.
RECURSIVE InputLines(_)
InputLines(inputs) ==
    IF inputs = <<>> THEN <<>>
    ELSE LET input_var == Head(inputs)
             name == Get(input_var, "name", <<>>)
             desc == Get(input_var, "description", <<"No description provided">>)
             var_type == Get(input_var, "type", <<"any">>)
             default == Get(input_var, "default", <<"no default">>)
         IN  << <<"### ">> \o name,
                <<"- **Description:** ">> \o desc,
                <<"- **Type:** ">> \o var_type,
                <<"- **Default:** ">> \o default \o <<"\n">> >>
             \o InputLines(Tail(inputs))

\* The lines appended for the outputs, one group of two per output.
RECURSIVE OutputLines(_)
OutputLines(outputs) ==
    IF outputs = <<>> THEN <<>>
    ELSE LET output_var == Head(outputs)
             name == Get(output_var, "name", <<>>)
             desc == Get(output_var, "description", <<"No description provided">>)
         IN  << <<"### ">> \o name,
                <<"- **Description:** ">> \o desc \o <<"\n">> >>
             \o OutputLines(Tail(outputs))

RenderedReadmeOffByOne(readme) ==
    IF Len(readme) >= ReadmeLimit
    THEN SubSeq(readme, 1, ReadmeLimit - 1) \o TruncationSuffix
    ELSE readme

\* The README as the report shows it.
RenderedReadme(readme) ==
    IF Len(readme) > ReadmeLimit
    THEN SubSeq(readme, 1, ReadmeLimit) \o TruncationSuffix
    ELSE readme

\* formatted_output, the list of lines before it is joined.
FormattedOutput(id, version, data) ==
    << <<"# Module Analysis: ">> \o id \o <<"\n">>,
       <<"**Version:** ">> \o version,
       <<"**Registry Link:** https://registry.terraform.io/modules/">> \o id \o <<"\n">>,
       <<"## Inputs (", ToString(Len(data.inputs)), ")", "\n">> >>
    \o InputLines(data.inputs)
    \o << <<"## Outputs (", ToString(Len(data.outputs)), ")", "\n">> >>
    \o OutputLines(data.outputs)
    \o << <<"## README", "\n", "\n">> \o RenderedReadme(data.readme) >>

Render(id, version, data) == Join(FormattedOutput(id, version, data), <<"\n">>)

(***************************************************************************)
(* Responses (models.py, MCPResponse) and the results analyze_module       *)
(* returns.                                                                *)
(***************************************************************************)
MCPResponse(content, metadata) == [content |-> content, metadata |-> metadata]

\* No response yet: the call has not returned.
NoResult == [content |-> <<>>, metadata |-> [pending |-> TRUE]]

InvalidIdResult(id) ==
    MCPResponse(<<"Invalid module ID: ">> \o id
                    \o <<". Format should be namespace/name/provider.">>,
                [success |-> FALSE, error |-> <<"Invalid module ID: ">> \o id])

RegistryErrorResult(text) ==
    MCPResponse(<<"Error fetching module details: ">> \o text,
                [success |-> FALSE, error |-> text])

DownloadErrorResult(stderr) ==
    MCPResponse(<<"Error downloading module: ">> \o stderr,
                [success |-> FALSE, error |-> stderr])

ExceptionResult(e) ==
    MCPResponse(<<"An error occurred while analyzing the Terraform module: ">> \o e.str,
                [success |-> FALSE, error |-> e.str])

\* A success that says nothing of the module it is about.
SuccessResultAnonymous(id, version, data) ==
    MCPResponse(Render(id, version, data), [success |-> TRUE, module_data |-> data])

\* The README of module_data replaced by the text the report shows.
SuccessResultTruncated(id, version, data) ==
    MCPResponse(Render(id, version, data),
                [success |-> TRUE, module_id |-> id, version |-> version,
                 module_data |-> [data EXCEPT !.readme = RenderedReadme(data.readme)]])

SuccessResult(id, version, data) ==
    MCPResponse(Render(id, version, data),
                [success |-> TRUE, module_id |-> id, version |-> version,
                 module_data |-> data])

\* module_data as line 192 creates it.
EmptyModuleData == [inputs |-> <<>>, outputs |-> <<>>, resources |-> <<>>, readme |-> <<>>]

(***************************************************************************)
(* Exceptions.  Every exception the modelled calls raise is a subclass of  *)
(* Exception, the class the handler of line 302 names.                     *)
(***************************************************************************)
NoException == [type |-> "none", str |-> <<>>]

ConnectError == [type |-> "httpx.ConnectError", str |-> <<"All connection attempts failed">>]
JSONDecodeError == [type |-> "json.JSONDecodeError", str |-> <<"Expecting value: line 1 column 1 (char 0)">>]
AttributeError == [type |-> "AttributeError", str |-> <<"'list' object has no attribute 'get'">>]
OSError == [type |-> "OSError", str |-> <<"[Errno 28] No space left on device">>]
IsADirectoryError == [type |-> "IsADirectoryError", str |-> <<"[Errno 21] Is a directory">>]
FileNotFoundError == [type |-> "FileNotFoundError", str |-> <<"[Errno 2] No such file or directory">>]
UnicodeDecodeError == [type |-> "UnicodeDecodeError", str |-> <<"'utf-8' codec can't decode byte 0xff">>]

ExceptionSubclasses ==
    {"httpx.ConnectError", "json.JSONDecodeError", "AttributeError", "OSError",
     "IsADirectoryError", "FileNotFoundError", "UnicodeDecodeError"}

CaughtOnlyHttp(e) == e.type = "httpx.ConnectError"

\* except Exception as e
Caught(e) == e.type \in ExceptionSubclasses

(***************************************************************************)
(* The environment: the registry, the scratch directories, terraform.      *)
(***************************************************************************)
HttpOk == 200

\* What GET /v1/modules/{namespace}/{name}/{provider} can answer.  json is
\* what details_response.json() makes of the body.
RegistryResponses ==
    {[status |-> 200, text |-> <<"{\"id\":\"m\",\"version\":\"1.2.0\"}">>,
      json |-> [kind |-> "object", value |-> [id |-> <<"m">>, version |-> <<"1.2.0">>]]],
     [status |-> 200, text |-> <<"{\"id\":\"m\"}">>,
      json |-> [kind |-> "object", value |-> [id |-> <<"m">>]]],
     [status |-> 200, text |-> <<"[]">>, json |-> [kind |-> "array"]],
     [status |-> 200, text |-> <<"<html>">>, json |-> [kind |-> "invalid"]],
     [status |-> 404, text |-> <<"{\"errors\":[\"Not Found\"]}">>,
      json |-> [kind |-> "object", value |-> [errors |-> <<"Not Found">>]]],
     [status |-> 500, text |-> <<>>, json |-> [kind |-> "invalid"]]}

NoResponse == [status |-> 0, text |-> <<>>, json |-> [kind |-> "invalid"]]

StatusFailedServerOnly(response) == response.status >= 500

\* details_response.status_code != 200
StatusFailed(response) == response.status # HttpOk

VersionOrLatest(details) == Get(details, "version", <<"latest">>)

\* details.get("version", "")
VersionOf(details) == Get(details, "version", <<>>)

\* A file: whether it exists and its text.
NoFile == [exists |-> FALSE, text |-> <<>>]
File(text) == [exists |-> TRUE, text |-> text]

\* The names terraform init can leave in .terraform/modules.
AnalyzedModule == <<"analyzed_module">>
ModulesJson == <<"modules.json">>
QualifiedX == <<"analyzed_module", ".", "x">>
QualifiedY == <<"analyzed_module", ".", "y">>

\* .terraform/modules after a terraform init that exits 0: whether the
\* directory exists and its entries in the order os.listdir gives them.
NoModules == [exists |-> FALSE, entries |-> <<>>]
Layouts ==
    {NoModules}
    \cup {[exists |-> TRUE, entries |-> es] :
            es \in {<<>>, <<ModulesJson>>, <<ModulesJson, AnalyzedModule>>,
                    <<AnalyzedModule, ModulesJson>>, <<ModulesJson, QualifiedX>>,
                    <<QualifiedY, QualifiedX>>, <<QualifiedX, AnalyzedModule>>}}

\* What subprocess.run returns for terraform init: the exit code, the
\* diagnostic stream, and .terraform/modules as the run left it.
NotRun == [ran |-> FALSE, returncode |-> 0, stderr |-> <<>>, modules |-> NoModules]
InitResults ==
    {[ran |-> TRUE, returncode |-> 1, stderr |-> e, modules |-> NoModules] :
        e \in {<<"Error: Module not found">>, <<>>}}
    \cup {[ran |-> TRUE, returncode |-> 0, stderr |-> <<>>, modules |-> layout] :
            layout \in Layouts}

InitFailedNever(run) == FALSE

\* result.returncode != 0
InitFailed(run) == run.returncode # 0

\* A scratch directory: whether it exists, the call that made it, main.tf
\* and .terraform/modules.
NoDir == [exists |-> FALSE, owner |-> 0, manifest |-> NoFile, modules |-> NoModules]
NewDir(c) == [exists |-> TRUE, owner |-> c, manifest |-> NoFile, modules |-> NoModules]

DirNames == 1..MaxCalls

\* main.tf as lines 162-167 write it.
ManifestText(namespace, name, provider, version) ==
    <<"\n", "module \"analyzed_module\" {", "\n", "  source  = \"">>
    \o namespace \o <<"/">> \o name \o <<"/">> \o provider
    \o <<"\"", "\n", "  version = \"">> \o version \o <<"\"", "\n", "}", "\n">>

\* The text of a .tf file that holds one block.
Tf(keyword, name, body) ==
    <<keyword, " ", "\"", name, "\"", " ", "{">> \o body \o <<"}", "\n">>

\* A line of a block that sets an attribute.
AttributeLine(attr, value) == <<"\n", " ", attr, " ", "=", " ">> \o value

RegionBody ==
    <<"\n", " ", "description", " ", "=", " ", "\"", "r", "\"",
      "\n", " ", "type", " ", "=", " ", "string",
      "\n", " ", "default", " ", "=", " ", "\"", "x", "\"", "\n">>

VariableTexts ==
    {<<>>,
     <<"#", " ", "x", "\n">>,
     <<"variable", " ", "\"", "x", "\"", " ", "{", "}", "\n">>,
     Tf("variable", "region", RegionBody),
     Tf("variable", "region", RegionBody) \o Tf("variable", "x", <<"\n">>)}

OutputTexts ==
    {<<>>,
     <<"output", "\"", "x", "\"", "{", " ", "}">>,
     Tf("output", "bucket_name",
        <<"\n", " ", "description", " ", "=", " ", "\"", "b", "\"",
          "\n", " ", "value", " ", "=", " ", "x", "\n">>)}

ReadmeTexts == {<<>>, <<"#", " ", "x", "\n", "x">>}

\* A byte sequence that is not text in the encoding open() decodes with.
Undecodable == <<"x", "0xFF">>

\* A file of the module directory as the extraction stages meet it:
\* os.path.exists, whether open() succeeds, and the bytes in the file.
Absent == [exists |-> FALSE, opens |-> FALSE, bytes |-> <<>>]
Unopenable == [exists |-> TRUE, opens |-> FALSE, bytes |-> <<>>]
Holding(contents) == {[exists |-> TRUE, opens |-> TRUE, bytes |-> t] : t \in contents}
FileStates(texts) == {Absent, Unopenable} \cup Holding(texts \cup {Undecodable})

\* f.read() of a file opened in text mode decodes the bytes, and raises on
\* a byte that is no text.
Decodes(bytes) == \A i \in 1..Len(bytes) : bytes[i] # "0xFF"

(***************************************************************************)
(* State.  Every local of analyze_module is a function of the call.        *)
(***************************************************************************)
VARIABLES
    pc,              \* where each call stands
    module_id,       \* the argument
    parts,           \* module_id.split("/")
    details_response,\* the answer of the registry
    latest_version,  \* details.get("version", "")
    init_result,     \* what subprocess.run returned
    temp_dir,        \* the scratch directory of the call, 0 before line 155
    module_dir,      \* the path the extraction stages read from
    module_data,     \* inputs, outputs, resources, readme
    result,          \* the MCPResponse returned
    escaped,         \* the exception that left analyze_module, if any
    fs,              \* the scratch directories on disk, by name
    trace,           \* the steps each call has taken, in order
    sample,          \* a module whose files are given, NoSample if none is
    analysis,        \* what lines 199-300 make of the sample
    tool             \* the tool of main.py that is being run, NoTool if none is

vars == <<pc, module_id, parts, details_response, latest_version, init_result,
          temp_dir, module_dir, module_data, result, escaped, fs, trace,
          sample, analysis, tool>>

locals == <<module_id, parts, details_response, latest_version, init_result,
            temp_dir, module_dir, module_data>>

NoPath == [dir |-> 0, entry |-> <<>>]

\* The pipeline before any call.
\* No tool has been called.
NoTool ==
    [name |-> "", handler |-> "", awaits |-> FALSE, pc |-> "idle",
     args |-> [working_dir |-> <<>>, plan_file |-> <<>>, service |-> <<>>, query |-> <<>>],
     present |-> FALSE,   \* whether the path apply_project asks for exists
     checked |-> <<>>,
     spawned |-> <<>>,
     value |-> [pending |-> TRUE],
     out |-> [pending |-> TRUE]]

Idle ==
    /\ pc = [c \in Calls |-> "idle"]
    /\ module_id = [c \in Calls |-> <<>>]
    /\ parts = [c \in Calls |-> <<>>]
    /\ details_response = [c \in Calls |-> NoResponse]
    /\ latest_version = [c \in Calls |-> <<>>]
    /\ init_result = [c \in Calls |-> NotRun]
    /\ temp_dir = [c \in Calls |-> 0]
    /\ module_dir = [c \in Calls |-> NoPath]
    /\ module_data = [c \in Calls |-> EmptyModuleData]
    /\ result = [c \in Calls |-> NoResult]
    /\ escaped = [c \in Calls |-> NoException]
    /\ fs = [d \in DirNames |-> NoDir]
    /\ trace = [c \in Calls |-> <<>>]
    /\ tool = NoTool

NoSample ==
    [module_id |-> <<>>, version |-> <<>>, variables_tf |-> <<>>, outputs_tf |-> <<>>,
     readme_md |-> <<>>]
NotAnalysed ==
    [stage |-> "variables", var_blocks |-> <<>>, out_blocks |-> <<>>,
     module_data |-> EmptyModuleData, result |-> NoResult]

Init ==
    /\ Idle
    /\ sample = NoSample
    /\ analysis = NotAnalysed

\* A step of a call moves that call and leaves the sample alone.
Goto(c, label) ==
    /\ pc' = [pc EXCEPT ![c] = label]
    /\ UNCHANGED <<sample, analysis, tool>>
Log(c, steps) == trace' = [trace EXCEPT ![c] = @ \o steps]

\* return response
Return(c, response) ==
    /\ Goto(c, "done")
    /\ result' = [result EXCEPT ![c] = response]
    /\ UNCHANGED escaped

\* A connection that fails sends the call back to the request.
RaiseOrRetry(c, e) ==
    IF e = ConnectError
    THEN Goto(c, "lookup") /\ UNCHANGED <<result, escaped>>
    ELSE /\ Goto(c, "done")
         /\ result' = [result EXCEPT ![c] = ExceptionResult(e)]
         /\ UNCHANGED escaped

\* raise e inside the try of line 120: the handler of line 302 turns what it
\* catches into a response, anything else leaves the function.
Raise(c, e) ==
    /\ Goto(c, "done")
    /\ IF Caught(e)
       THEN /\ result' = [result EXCEPT ![c] = ExceptionResult(e)]
            /\ UNCHANGED escaped
       ELSE /\ escaped' = [escaped EXCEPT ![c] = e]
            /\ UNCHANGED result

ExitScratchKeepOnReturn(f, d, how) ==
    IF how = "return" THEN f ELSE [f EXCEPT ![d] = NoDir]

\* Leaving the with block of line 155 (how: "end", "return" or "raise"):
\* TemporaryDirectory.__exit__ removes the directory and all under it.
ExitScratch(f, d, how) == [f EXCEPT ![d] = NoDir]

\* os.path.exists(module_dir)
PathExists(f, path) ==
    /\ path.dir \in DirNames
    /\ f[path.dir].exists
    /\ f[path.dir].modules.exists
    /\ \E i \in 1..Len(f[path.dir].modules.entries) :
          f[path.dir].modules.entries[i] = path.entry

\* analyze_module is called (lines 108-118).
Invoke(c) ==
    /\ pc[c] = "idle"
    /\ \E id \in ModuleIds : module_id' = [module_id EXCEPT ![c] = id]
    /\ Goto(c, "parse")
    /\ UNCHANGED <<parts, details_response, latest_version, init_result, temp_dir,
                   module_dir, module_data, result, escaped, fs, trace>>

\* Lines 121-132.
ParseIdentifier(c) ==
    /\ pc[c] = "parse"
    /\ Log(c, <<"ParseIdentifier">>)
    /\ parts' = [parts EXCEPT ![c] = Split(module_id[c], "/")]
    /\ IF Len(parts'[c]) # 3
       THEN Return(c, InvalidIdResult(module_id[c]))
       ELSE Goto(c, "lookup") /\ UNCHANGED <<result, escaped>>
    /\ UNCHANGED <<module_id, details_response, latest_version, init_result, temp_dir,
                   module_dir, module_data, fs>>

\* Lines 134-152: the request, the status check and the version.
LookupVersion(c) ==
    /\ pc[c] = "lookup"
    /\ Log(c, <<"LookupVersion">>)
    /\ \/ /\ Raise(c, ConnectError)
          /\ UNCHANGED <<details_response, latest_version>>
       \/ \E response \in RegistryResponses :
            /\ details_response' = [details_response EXCEPT ![c] = response]
            /\ IF StatusFailed(response)
               THEN /\ Return(c, RegistryErrorResult(response.text))
                    /\ UNCHANGED latest_version
               ELSE IF response.json.kind = "invalid"
               THEN Raise(c, JSONDecodeError) /\ UNCHANGED latest_version
               ELSE IF response.json.kind # "object"
               THEN Raise(c, AttributeError) /\ UNCHANGED latest_version
               ELSE /\ latest_version' =
                         [latest_version EXCEPT ![c] = VersionOf(response.json.value)]
                    /\ Goto(c, "mkdtemp")
                    /\ UNCHANGED <<result, escaped>>
    /\ UNCHANGED <<module_id, parts, init_result, temp_dir, module_dir, module_data, fs>>

FixedName(f) == {1}

\* The names mkdtemp can give a new directory: those no directory has.
FreshNames(f) == {d \in DirNames : ~f[d].exists}

\* Line 155: tempfile.TemporaryDirectory() makes a directory under a name
\* that no existing directory has, or fails.
CreateScratch(c) ==
    /\ pc[c] = "mkdtemp"
    /\ Log(c, <<"CreateScratch">>)
    /\ \/ /\ Raise(c, OSError)
          /\ UNCHANGED <<temp_dir, fs>>
       \/ \E d \in FreshNames(fs) :
            /\ fs' = [fs EXCEPT ![d] = NewDir(c)]
            /\ temp_dir' = [temp_dir EXCEPT ![c] = d]
            /\ Goto(c, "manifest")
            /\ UNCHANGED <<result, escaped>>
    /\ UNCHANGED <<module_id, parts, details_response, latest_version, init_result,
                   module_dir, module_data>>

\* Lines 160-167: main.tf is written.
WriteManifest(c) ==
    /\ pc[c] = "manifest"
    /\ \/ /\ Raise(c, OSError)
          /\ fs' = ExitScratch(fs, temp_dir[c], "raise")
          /\ Log(c, <<"WriteManifest", "Cleanup">>)
       \/ /\ fs' = [fs EXCEPT ![temp_dir[c]].manifest =
                      File(ManifestText(parts[c][1], parts[c][2], parts[c][3],
                                        latest_version[c]))]
          /\ Log(c, <<"WriteManifest">>)
          /\ Goto(c, "init")
          /\ UNCHANGED <<result, escaped>>
    /\ UNCHANGED locals

\* Lines 157, 170-180: terraform init -get=true in the scratch directory.
RunInit(c) ==
    /\ pc[c] = "init"
    /\ \/ /\ Raise(c, FileNotFoundError)
          /\ fs' = ExitScratch(fs, temp_dir[c], "raise")
          /\ Log(c, <<"RunInit", "Cleanup">>)
          /\ UNCHANGED init_result
       \/ \E run \in InitResults :
            /\ init_result' = [init_result EXCEPT ![c] = run]
            /\ IF InitFailed(run)
               THEN /\ Return(c, DownloadErrorResult(run.stderr))
                    /\ fs' = ExitScratch([fs EXCEPT ![temp_dir[c]].modules = run.modules],
                                         temp_dir[c], "return")
                    /\ Log(c, <<"RunInit", "Cleanup">>)
               ELSE /\ fs' = [fs EXCEPT ![temp_dir[c]].modules = run.modules]
                    /\ Log(c, <<"RunInit">>)
                    /\ Goto(c, "locate")
                    /\ UNCHANGED <<result, escaped>>
    /\ UNCHANGED <<module_id, parts, details_response, latest_version, temp_dir,
                   module_dir, module_data>>

\* The first entry of the listing whose name starts with analyzed_module,
\* the conventional name when there is none (lines 187-190).
\* The loop of lines 187-190 without its break.
LastQualified(entries, otherwise) ==
    LET hits == {i \in 1..Len(entries) : StartsWith(entries[i], AnalyzedModule)}
    IN  IF hits = {} THEN otherwise
        ELSE entries[CHOOSE i \in hits : \A j \in hits : j <= i]

RECURSIVE FirstQualified(_, _)
FirstQualified(entries, otherwise) ==
    IF entries = <<>> THEN otherwise
    ELSE IF StartsWith(Head(entries), AnalyzedModule) THEN Head(entries)
    ELSE FirstQualified(Tail(entries), otherwise)

\* Lines 182-197: the module directory is looked for, module_data is made.
LocateModuleDir(c) ==
    LET conventional == [dir |-> temp_dir[c], entry |-> AnalyzedModule]
        modules_dir == fs[temp_dir[c]].modules
    IN
    /\ pc[c] = "locate"
    /\ IF PathExists(fs, conventional)
       THEN /\ module_dir' = [module_dir EXCEPT ![c] = conventional]
            /\ module_data' = [module_data EXCEPT ![c] = EmptyModuleData]
            /\ Log(c, <<"LocateModuleDir">>)
            /\ Goto(c, "variables")
            /\ UNCHANGED <<result, escaped, fs>>
       ELSE IF ~modules_dir.exists
       THEN \* os.listdir of a directory that does not exist
            /\ Raise(c, FileNotFoundError)
            /\ fs' = ExitScratch(fs, temp_dir[c], "raise")
            /\ Log(c, <<"LocateModuleDir", "Cleanup">>)
            /\ UNCHANGED <<module_dir, module_data>>
       ELSE /\ module_dir' =
                 [module_dir EXCEPT
                     ![c] = [dir |-> temp_dir[c],
                             entry |-> FirstQualified(modules_dir.entries,
                                                      AnalyzedModule)]]
            /\ module_data' = [module_data EXCEPT ![c] = EmptyModuleData]
            /\ Log(c, <<"LocateModuleDir">>)
            /\ Goto(c, "variables")
            /\ UNCHANGED <<result, escaped, fs>>
    /\ UNCHANGED <<module_id, parts, details_response, latest_version, init_result,
                   temp_dir>>

\* with open(path, "r") as f: content = f.read()
ReadError(file) ==
    IF ~file.opens THEN IsADirectoryError
    ELSE IF ~Decodes(file.bytes) THEN UnicodeDecodeError
    ELSE NoException

\* A file of the module directory can exist only if the directory does.
\* When the files of the module are given by the sample, the directory
\* holds that one (known); otherwise the file is any of FileStates(texts).
FileIn(f, path, known, texts) ==
    IF sample = NoSample
    THEN {file \in FileStates(texts) : file.exists => PathExists(f, path)}
    ELSE IF PathExists(f, path) THEN Holding({known}) ELSE {Absent}

\* Lines 199-225.
ExtractVariables(c) ==
    /\ pc[c] = "variables"
    /\ \E variables_file \in FileIn(fs, module_dir[c], sample.variables_tf, VariableTexts) :
         IF ~variables_file.exists
         THEN /\ Log(c, <<"ExtractVariables">>)
              /\ Goto(c, "outputs")
              /\ UNCHANGED <<module_data, result, escaped, fs>>
         ELSE IF ReadError(variables_file) # NoException
         THEN /\ Raise(c, ReadError(variables_file))
              /\ fs' = ExitScratch(fs, temp_dir[c], "raise")
              /\ Log(c, <<"ExtractVariables", "Cleanup">>)
              /\ UNCHANGED module_data
         ELSE /\ module_data' =
                   [module_data EXCEPT
                       ![c].inputs = @ \o ExtractInputs(variables_file.bytes)]
              /\ Log(c, <<"ExtractVariables">>)
              /\ Goto(c, "outputs")
              /\ UNCHANGED <<result, escaped, fs>>
    /\ UNCHANGED <<module_id, parts, details_response, latest_version, init_result,
                   temp_dir, module_dir>>

\* Lines 227-248.
ExtractOutputsStage(c) ==
    /\ pc[c] = "outputs"
    /\ \E outputs_file \in FileIn(fs, module_dir[c], sample.outputs_tf, OutputTexts) :
         IF ~outputs_file.exists
         THEN /\ Log(c, <<"ExtractOutputs">>)
              /\ Goto(c, "readme")
              /\ UNCHANGED <<module_data, result, escaped, fs>>
         ELSE IF ReadError(outputs_file) # NoException
         THEN /\ Raise(c, ReadError(outputs_file))
              /\ fs' = ExitScratch(fs, temp_dir[c], "raise")
              /\ Log(c, <<"ExtractOutputs", "Cleanup">>)
              /\ UNCHANGED module_data
         ELSE /\ module_data' =
                   [module_data EXCEPT
                       ![c].outputs = @ \o ExtractOutputs(outputs_file.bytes)]
              /\ Log(c, <<"ExtractOutputs">>)
              /\ Goto(c, "readme")
              /\ UNCHANGED <<result, escaped, fs>>
    /\ UNCHANGED <<module_id, parts, details_response, latest_version, init_result,
                   temp_dir, module_dir>>

\* Lines 250-254.
ReadReadme(c) ==
    /\ pc[c] = "readme"
    /\ \E readme_file \in FileIn(fs, module_dir[c], sample.readme_md, ReadmeTexts) :
         IF ~readme_file.exists
         THEN /\ Log(c, <<"ReadReadme">>)
              /\ Goto(c, "cleanup")
              /\ UNCHANGED <<module_data, result, escaped, fs>>
         ELSE IF ReadError(readme_file) # NoException
         THEN /\ Raise(c, ReadError(readme_file))
              /\ fs' = ExitScratch(fs, temp_dir[c], "raise")
              /\ Log(c, <<"ReadReadme", "Cleanup">>)
              /\ UNCHANGED module_data
         ELSE /\ module_data' = [module_data EXCEPT ![c].readme = readme_file.bytes]
              /\ Log(c, <<"ReadReadme">>)
              /\ Goto(c, "cleanup")
              /\ UNCHANGED <<result, escaped, fs>>
    /\ UNCHANGED <<module_id, parts, details_response, latest_version, init_result,
                   temp_dir, module_dir>>

CleanupForgotten(c) ==
    /\ pc[c] = "cleanup"
    /\ Goto(c, "render")
    /\ UNCHANGED <<locals, result, escaped, fs, trace>>

\* The end of the with block of line 155.
Cleanup(c) ==
    /\ pc[c] = "cleanup"
    /\ fs' = ExitScratch(fs, temp_dir[c], "end")
    /\ Log(c, <<"Cleanup">>)
    /\ Goto(c, "render")
    /\ UNCHANGED <<locals, result, escaped>>

\* Lines 256-300: the report is formatted and returned.
RenderReport(c) ==
    /\ pc[c] = "render"
    /\ Log(c, <<"Render">>)
    /\ Return(c, SuccessResult(module_id[c], latest_version[c], module_data[c]))
    /\ UNCHANGED <<locals, fs>>

Step(c) ==
    \/ Invoke(c)
    \/ ParseIdentifier(c)
    \/ LookupVersion(c)
    \/ CreateScratch(c)
    \/ WriteManifest(c)
    \/ RunInit(c)
    \/ LocateModuleDir(c)
    \/ ExtractVariables(c)
    \/ ExtractOutputsStage(c)
    \/ ReadReadme(c)
    \/ Cleanup(c)
    \/ RenderReport(c)

\* One invocation, run alone.
Next == \E c \in Solo : Step(c)

Spec == Init /\ [][Next]_vars

(***************************************************************************)
(* Lines 199-300 by themselves: the three files of a module directory are  *)
(* given, and the stages that read them and the formatter are applied.     *)
(***************************************************************************)
\* A README of n characters; the character at the limit and those after
\* it differ from the ones before.
ReadmeOfLength(n) ==
    [i \in 1..n |-> IF i < ReadmeLimit THEN "x" ELSE IF i = ReadmeLimit THEN "y" ELSE "z"]

\* READMEs that are short, and READMEs around the limit of line 287.
ReadmeLengths == (0..Slack) \cup ((ReadmeLimit - Slack)..(ReadmeLimit + Slack))
Readmes == {ReadmeOfLength(n) : n \in ReadmeLengths}

\* A variables.tf with a block comment: the name group [^"]+ of the block
\* pattern runs over the line break inside it.
CommentedText ==
    Tf("variable", "region", RegionBody)
    \o <<"/*", " ", "variable", " ", "\"", "a", "\n", "### ", "b", "\"", " ", "{",
         " ", "x", " ", "}", " ", "*/", "\n">>

SampleOf(id, version, variables, outputs, readme) ==
    [module_id |-> id, version |-> version, variables_tf |-> variables,
     outputs_tf |-> outputs, readme_md |-> readme]

\* The blocks a .tf file is written from, as <<name, body>>: names that
\* repeat, bodies of blank space and bodies with an attribute.
BlockLists ==
    SeqsUpTo({<<name, body>> :
                 name \in {"x", "y"},
                 body \in {<<"\n">>,
                           AttributeLine("description", <<"\"", "d", "\"">>) \o <<"\n">>}},
             MaxBlocks)

\* The file written from the blocks, fill before, between and after them.
RECURSIVE Written(_, _, _)
Written(keyword, blocks, fill) ==
    IF blocks = <<>> THEN fill
    ELSE fill \o Tf(keyword, Head(blocks)[1], Head(blocks)[2])
         \o Written(keyword, Tail(blocks), fill)

Fills == {<<>>, <<"#", " ", "c", "\n">>}

\* What stands in a variable block before the first '}' of the file ...
BeforeBrace ==
    {<<" ", "validation", " ", "{", "\n", " ", "condition", " ", "=", " ", "true", "\n", " ">>,
     AttributeLine("type", <<"string">>)
         \o <<"\n", " ", "validation", " ", "{", " ", "condition", " ", "=", " ", "true", " ">>,
     AttributeLine("default", <<"\"">>)}

\* ... and between it and the brace that closes the block.
AfterBrace ==
    {AttributeLine("description", <<"\"", "d", "\"">>) \o <<"\n">>,
     <<"\"">> \o AttributeLine("description", <<"\"", "d", "\"">>)
         \o AttributeLine("type", <<"number">>) \o <<"\n">>}

\* A variable block with a '}' inside its braces.
NestedTexts ==
    {Tf("variable", "x", before \o <<"}">> \o after) :
        before \in BeforeBrace, after \in AfterBrace}

\* Bodies of a block that set attributes in the ways module authors do:
\* quoted text with a space or an escaped quote, an empty text, a heredoc,
\* a list on one line, a list over several lines, blank space at the end
\* of the line, a commented assignment, no space around '=', several
\* spaces around it, an attribute whose name ends in "type", and the word
\* type inside a description.
AttributeBodies ==
    {AttributeLine("description", <<"\"", "a", " ", "b", "\"">>) \o <<"\n">>,
     AttributeLine("description", <<"\"", "s", "\\", "\"", "t", "\"">>) \o <<"\n">>,
     AttributeLine("description", <<"\"", "\"">>)
         \o AttributeLine("type", <<"string">>) \o <<"\n">>,
     AttributeLine("description", <<"<<EOT">>) \o <<"\n", "d", "\n", "EOT", "\n">>,
     AttributeLine("default", <<"[", "1", ",", "2", ",", "3", "]">>) \o <<"\n">>,
     AttributeLine("default", <<"\"", "x", "\"", " ">>)
         \o AttributeLine("type", <<"string">>) \o <<"\n">>,
     <<" ", "type", " ", "=", " ", "string", " ">>,
     AttributeLine("default", <<"[">>) \o <<"\n", " ", "1", "\n", " ", "]", "\n">>,
     <<"\n", "#", " ", "default", " ", "=">>
         \o AttributeLine("description", <<"\"", "d", "\"">>) \o <<"\n">>,
     <<"\n", " ", "type", "=", "string", "\n">>,
     <<"\n", " ", "machine_", "type", " ", "=", " ", "x", "\n">>,
     AttributeLine("description", <<"\"", "the", " ", "type", " ", "=", " ", "a", "\"">>)
         \o <<"\n">>,
     <<"\n", " ", "type", " ", " ", "=", " ", " ", "number", "\n">>,
     AttributeLine("value", <<"a", ".", "b", " ">>)
         \o AttributeLine("description", <<"\"", "d", "\"">>) \o <<"\n">>}

\* A block with nothing between its braces, and a block whose '{' follows
\* the quoted name directly.
Skipped(keyword) ==
    {<<keyword, " ", "\"", "s", "\"", " ", "{", "}", "\n">>,
     <<keyword, " ", "\"", "s", "\"", "{">>
         \o AttributeLine("description", <<"\"", "d", "\"">>) \o <<"\n", "}", "\n">>}

\* Files with a skipped block after and before at most one block of the
\* shape.
SkippedTexts(keyword) ==
    {Written(keyword, before, <<>>) \o skipped \o Written(keyword, after, <<>>) :
        before \in {blocks \in BlockLists : Len(blocks) <= 1},
        skipped \in Skipped(keyword),
        after \in {blocks \in BlockLists : Len(blocks) <= 1}}

\* The directories the stages are applied to.
Samples ==
    {SampleOf(<<"a", "/", "b", "/", "a">>, v, variables, outputs, readme) :
        v \in {<<>>, <<"1.2.0">>}, variables \in VariableTexts \cup {CommentedText},
        outputs \in OutputTexts, readme \in ReadmeTexts}
    \cup {SampleOf(<<"a", "/", "b", "/", "a">>, <<"1.2.0">>, variables, <<>>, readme) :
        variables \in {<<>>, Tf("variable", "region", RegionBody)}, readme \in Readmes}
    \cup {SampleOf(<<"a", "/", "b", "/", "a">>, <<"1.2.0">>,
                   Written("variable", blocks, fill), Written("output", blocks, fill),
                   <<>>) :
        blocks \in BlockLists, fill \in Fills}
    \cup {SampleOf(<<"a", "/", "b", "/", "a">>, <<"1.2.0">>, variables, <<>>, <<>>) :
        variables \in NestedTexts}
    \cup {SampleOf(<<"a", "/", "b", "/", "a">>, <<"1.2.0">>,
                   Tf("variable", "x", body), Tf("output", "x", body), <<>>) :
        body \in AttributeBodies}
    \cup {SampleOf(<<"a", "/", "b", "/", "a">>, <<"1.2.0">>, variables, <<>>, <<>>) :
        variables \in SkippedTexts("variable")}
    \cup {SampleOf(<<"a", "/", "b", "/", "a">>, <<"1.2.0">>, <<>>, outputs, <<>>) :
        outputs \in SkippedTexts("output")}

InitFiles ==
    /\ Idle
    /\ sample \in Samples
    /\ analysis = NotAnalysed

\* Lines 199-225 on the content of variables.tf.
AnalyseVariables ==
    /\ analysis.stage = "variables"
    /\ analysis' =
          [analysis EXCEPT
              !.stage = "outputs",
              !.var_blocks = FindBlocks(sample.variables_tf, "variable"),
              !.module_data.inputs = @ \o ExtractInputs(sample.variables_tf)]
    /\ UNCHANGED <<pc, locals, result, escaped, fs, trace, sample, tool>>

\* Lines 227-248 on the content of outputs.tf.
AnalyseOutputs ==
    /\ analysis.stage = "outputs"
    /\ analysis' =
          [analysis EXCEPT
              !.stage = "readme",
              !.out_blocks = FindBlocks(sample.outputs_tf, "output"),
              !.module_data.outputs = @ \o ExtractOutputs(sample.outputs_tf)]
    /\ UNCHANGED <<pc, locals, result, escaped, fs, trace, sample, tool>>

\* Lines 250-254 on the content of README.md.
AnalyseReadme ==
    /\ analysis.stage = "readme"
    /\ analysis' = [analysis EXCEPT !.stage = "render",
                                    !.module_data.readme = sample.readme_md]
    /\ UNCHANGED <<pc, locals, result, escaped, fs, trace, sample, tool>>

\* Lines 256-300.
AnalyseRender ==
    /\ analysis.stage = "render"
    /\ analysis' =
          [analysis EXCEPT
              !.stage = "done",
              !.result = SuccessResult(sample.module_id, sample.version,
                                       analysis.module_data)]
    /\ UNCHANGED <<pc, locals, result, escaped, fs, trace, sample, tool>>

NextFiles == AnalyseVariables \/ AnalyseOutputs \/ AnalyseReadme \/ AnalyseRender

SpecFiles == InitFiles /\ [][NextFiles]_vars

(***************************************************************************)
(* The calls when the module directory holds given files: a variables.tf   *)
(* with one variable, an outputs.tf with one output and a README.md of 50  *)
(* characters.                                                             *)
(***************************************************************************)
ScenarioSample(default) ==
    SampleOf(<<"a", "/", "b", "/", "a">>, <<"1.2.0">>,
             Tf("variable", "region",
                AttributeLine("description", <<"\"", "r", "\"">>)
                \o AttributeLine("type", <<"string">>)
                \o AttributeLine("default", default) \o <<"\n">>),
             Tf("output", "bucket_name",
                AttributeLine("description", <<"\"", "b", "\"">>)
                \o AttributeLine("value", <<"x">>) \o <<"\n">>),
             ReadmeOfLength(50))

ScenarioSamples == {ScenarioSample(default) : default \in {<<"\"", "x", "\"">>, <<"[", "]">>}}

InitScenario ==
    /\ Idle
    /\ sample \in ScenarioSamples
    /\ analysis = NotAnalysed

SpecScenario == InitScenario /\ [][Next]_vars

(***************************************************************************)
(* All the calls at once, their steps interleaved in every way, for a few  *)
(* identifiers, registry answers and outcomes of terraform init; a new     *)
(* directory gets the least of the free names.                             *)
(***************************************************************************)
Within ==
    \A c \in Calls :
        /\ module_id[c] \in {<<>>, <<"a", "/", "b", "/", "a">>, <<"a", "/", "b">>}
        /\ details_response[c].status \in {0, 200, 404}
        /\ details_response[c].status = 200 =>
              /\ details_response[c].json.kind = "object"
              /\ "version" \in DOMAIN details_response[c].json.value
        /\ init_result[c].stderr = <<>>
        /\ init_result[c].modules \in
              {NoModules,
               [exists |-> TRUE, entries |-> <<ModulesJson, AnalyzedModule>>],
               [exists |-> TRUE, entries |-> <<ModulesJson>>]}

NextConcurrent ==
    \E c \in Calls :
        \/ Invoke(c) /\ Within'
        \/ ParseIdentifier(c)
        \/ LookupVersion(c) /\ Within'
        \/ CreateScratch(c) /\ \A d \in FreshNames(fs) : temp_dir'[c] <= d
        \/ WriteManifest(c)
        \/ RunInit(c) /\ Within'
        \/ LocateModuleDir(c)
        \/ ExtractVariables(c)
        \/ ExtractOutputsStage(c)
        \/ ReadReadme(c)
        \/ Cleanup(c)
        \/ RenderReport(c)

InitConcurrent ==
    /\ Idle
    /\ sample = ScenarioSample(<<"[", "]">>)
    /\ analysis = NotAnalysed

SpecConcurrent == InitConcurrent /\ [][NextConcurrent]_vars

(***************************************************************************)
(* The tools of main.py.  A tool function calls its handler and returns    *)
(* the content of what the call gave.  apply_project and                   *)
(* list_provider_resources are modelled step by step; of the other         *)
(* handlers only what the call gives back is: a plain function gives an    *)
(* MCPResponse, a coroutine function gives a coroutine whose body has not  *)
(* run.                                                                    *)
(***************************************************************************)
\* main.py lines 30-102: the registered tools, the handler each calls, and
\* whether the tool awaits what the call gives.
Tools ==
    {[name |-> "terraform_workflow_guide", handler |-> "get_workflow_guide", awaits |-> FALSE],
     [name |-> "terraform_init", handler |-> "initialize_project", awaits |-> FALSE],
     [name |-> "terraform_validate", handler |-> "validate_project", awaits |-> FALSE],
     [name |-> "terraform_plan", handler |-> "plan_project", awaits |-> FALSE],
     [name |-> "terraform_apply", handler |-> "apply_project", awaits |-> FALSE],
     [name |-> "terraform_destroy", handler |-> "destroy_project", awaits |-> FALSE],
     [name |-> "terraform_run_checkov", handler |-> "run_checkov_scan", awaits |-> FALSE],
     [name |-> "terraform_fix_security_issues", handler |-> "fix_security_issues",
      awaits |-> FALSE],
     [name |-> "terraform_gcp_best_practices", handler |-> "get_best_practices",
      awaits |-> FALSE],
     [name |-> "terraform_gcp_security_recommendations",
      handler |-> "get_security_recommendations", awaits |-> FALSE],
     [name |-> "terraform_gcp_provider_resources_listing",
      handler |-> "list_provider_resources", awaits |-> FALSE],
     [name |-> "terraform_gcp_resource_documentation",
      handler |-> "get_resource_documentation", awaits |-> FALSE],
     [name |-> "terraform_search_modules", handler |-> "search_modules", awaits |-> FALSE],
     [name |-> "terraform_analyze_module", handler |-> "analyze_module", awaits |-> TRUE],
     [name |-> "terraform_genai_modules", handler |-> "list_genai_modules", awaits |-> FALSE],
     [name |-> "terraform_vertex_ai_module", handler |-> "get_vertex_ai_module",
      awaits |-> FALSE],
     [name |-> "terraform_gke_ai_module", handler |-> "get_gke_ai_module", awaits |-> FALSE]}

\* The handlers defined with async def.
CoroutineFunctions == {"search_modules", "analyze_module"}

\* The handlers modelled step by step.
Stepwise == {"apply_project", "list_provider_resources"}

\* An optional argument: None is <<>>, a value v is <<v>>.
None == <<>>
Some(v) == <<v>>

\* Working directories: absolute, with a separator at the end, relative.
WorkingDirs == {<<"/", "w">>, <<"/", "w", "/">>, <<"w">>}

\* Plan files: the default, another name, an absolute path, a path that
\* leaves the working directory, the empty string.
PlanFiles ==
    {<<"tfplan">>, <<"my", ".", "plan">>, <<"/", "p", "/", "tfplan">>,
     <<"..", "/", "tfplan">>, <<>>}

\* gcp_provider_handlers.py lines 14-127: the services in the order of the
\* dict, each with the names of its resources (the description and the
\* documentation_url of a resource are not told apart here).
GCP_PROVIDER_RESOURCES ==
    <<(<<"compute", <<"google_compute_instance", "google_compute_disk",
                      "google_compute_network", "google_compute_firewall",
                      "google_compute_address">> >>),
      (<<"storage", <<"google_storage_bucket", "google_storage_bucket_object",
                      "google_storage_bucket_iam_binding">> >>),
      (<<"container", <<"google_container_cluster", "google_container_node_pool">> >>),
      (<<"sql", <<"google_sql_database_instance", "google_sql_database",
                  "google_sql_user">> >>),
      (<<"iam", <<"google_project_iam_binding", "google_service_account",
                  "google_service_account_key">> >>),
      (<<"cloudrun", <<"google_cloud_run_service">> >>),
      (<<"bigquery", <<"google_bigquery_dataset", "google_bigquery_table">> >>)>>

\* dict.keys()
Keys(dict) == [i \in 1..Len(dict) |-> dict[i][1]]

\* key in dict
In(key, dict) == \E i \in 1..Len(dict) : dict[i][1] = key

\* {key: dict[key]}
Only(key, dict) == SelectSeq(dict, LAMBDA pair : pair[1] = key)

\* Service arguments: none, the empty string, the keys of the catalog,
\* names that are no key (another case, a blank at the end, another word).
Services ==
    {None, Some("")}
    \cup {Some(Keys(GCP_PROVIDER_RESOURCES)[i]) : i \in 1..Len(GCP_PROVIDER_RESOURCES)}
    \cup {Some("Compute"), Some("SQL"), Some("sql "), Some("pubsub"), Some("None")}

Queries == {<<>>, <<"vpc">>, <<"gke", " ", "cluster">>}

\* What the handlers that are not modelled step by step put in content.
Contents == {<<"# Report">>, <<"Error: ", "stderr">>}

\* The arguments a tool can be called with.
Arguments(name) ==
    CASE name = "terraform_apply" ->
            {[working_dir |-> w, plan_file |-> p, service |-> None, query |-> <<>>] :
                w \in WorkingDirs, p \in PlanFiles}
      [] name = "terraform_gcp_provider_resources_listing" ->
            {[working_dir |-> <<>>, plan_file |-> <<>>, service |-> svc, query |-> <<>>] :
                svc \in Services}
      [] name \in {"terraform_search_modules", "terraform_analyze_module"} ->
            {[working_dir |-> <<>>, plan_file |-> <<>>, service |-> None, query |-> q] :
                q \in Queries}
      [] OTHER -> {NoTool.args}

\* A client calls a tool: the tool function is entered.
CallTool ==
    /\ tool.pc = "idle"
    /\ \E t \in Tools : \E args \in Arguments(t.name) :
      \E present \in IF t.handler = "apply_project" THEN BOOLEAN ELSE {FALSE} :
          tool' = [tool EXCEPT !.name = t.name, !.handler = t.handler,
                               !.awaits = t.awaits, !.args = args,
                               !.present = present, !.pc = "handler"]
    /\ UNCHANGED <<pc, locals, result, escaped, fs, trace, sample, analysis>>

\* Calling a coroutine function runs none of its body: it gives a coroutine.
CallCoroutineFunction ==
    /\ tool.pc = "handler"
    /\ tool.handler \in CoroutineFunctions
    /\ tool' = [tool EXCEPT !.value = [coroutine |-> tool.handler],
                            !.pc = IF tool.awaits THEN "await" ELSE "called"]
    /\ UNCHANGED <<pc, locals, result, escaped, fs, trace, sample, analysis>>

\* main.py line 88: await runs the coroutine to its return.
Await ==
    /\ tool.pc = "await"
    /\ "coroutine" \in DOMAIN tool.value
    /\ \E content \in Contents : \E success \in BOOLEAN :
          tool' = [tool EXCEPT !.value = MCPResponse(content, [success |-> success]),
                               !.pc = "called"]
    /\ UNCHANGED <<pc, locals, result, escaped, fs, trace, sample, analysis>>

\* A plain handler runs to its return.
CallHandler ==
    /\ tool.pc = "handler"
    /\ tool.handler \notin CoroutineFunctions \cup Stepwise
    /\ \E content \in Contents : \E success \in BOOLEAN :
          tool' = [tool EXCEPT !.value = MCPResponse(content, [success |-> success]),
                               !.pc = "called"]
    /\ UNCHANGED <<pc, locals, result, escaped, fs, trace, sample, analysis>>

\* os.path.join of two components.
PathJoin(a, b) ==
    IF b # <<>> /\ b[1] = "/" THEN b
    ELSE IF a = <<>> \/ a[Len(a)] = "/" THEN a \o b
    ELSE a \o <<"/">> \o b

\* Another process makes or removes the plan file while the tool runs.
PlanFileChanges ==
    /\ tool.handler = "apply_project"
    /\ tool.pc \in {"handler", "apply"}
    /\ tool' = [tool EXCEPT !.present = ~tool.present]
    /\ UNCHANGED <<pc, locals, result, escaped, fs, trace, sample, analysis>>

\* What subprocess.run(cmd, check=False) can do: return an exit code with
\* the two streams, or raise (no terraform on the PATH, no such cwd).
ApplyOutcomes ==
    {[raised |-> FALSE, returncode |-> 0, stdout |-> <<"Apply complete!">>, stderr |-> <<>>],
     [raised |-> FALSE, returncode |-> 1, stdout |-> <<>>, stderr |-> <<"Error: stale plan">>],
     [raised |-> TRUE, returncode |-> 0, stdout |-> <<>>,
      stderr |-> <<"[Errno 2] No such file or directory: 'terraform'">>]}

\* str.join(" ", cmd)
CommandLine(cmd) == Join(cmd, <<" ">>)

\* The command is built without a look at the disk.
ApplyUnchecked ==
    /\ tool.pc = "handler"
    /\ tool.handler = "apply_project"
    /\ tool' = [tool EXCEPT
                   !.checked =
                      Append(tool.checked,
                             [path |-> PathJoin(tool.args.working_dir, tool.args.plan_file),
                              exists |-> tool.present]),
                   !.pc = "apply"]
    /\ UNCHANGED <<pc, locals, result, escaped, fs, trace, sample, analysis>>

\* terraform_workflow_handlers.py lines 322-332: the plan path is made and
\* looked for.
ApplyCheck ==
    /\ tool.pc = "handler"
    /\ tool.handler = "apply_project"
    /\ LET plan_file == tool.args.plan_file
           plan_path == PathJoin(tool.args.working_dir, plan_file)
           look == [path |-> plan_path, exists |-> tool.present]
       IN  IF ~tool.present
           THEN tool' =
                  [tool EXCEPT
                     !.checked = Append(tool.checked, look),
                     !.value =
                        MCPResponse(<<"Error: Plan file ">> \o plan_file
                                        \o <<" not found. Run terraform plan first.">>,
                                    [success |-> FALSE,
                                     error |-> <<"Plan file ">> \o plan_file
                                                   \o <<" not found">>]),
                     !.pc = "called"]
           ELSE tool' = [tool EXCEPT !.checked = Append(tool.checked, look),
                                     !.pc = "apply"]
    /\ UNCHANGED <<pc, locals, result, escaped, fs, trace, sample, analysis>>

\* Lines 335-367: terraform apply is run and its outcome is reported.
ApplyRun ==
    /\ tool.pc = "apply"
    /\ LET plan_file == tool.args.plan_file
           cmd == <<(<<"terraform">>), (<<"apply">>), plan_file>>
       IN  \E outcome \in ApplyOutcomes :
             tool' =
               [tool EXCEPT
                  !.spawned = Append(tool.spawned,
                                     [cmd |-> cmd, cwd |-> tool.args.working_dir]),
                  !.value =
                     IF outcome.raised
                     THEN MCPResponse(<<"An error occurred during Terraform apply: ">>
                                          \o outcome.stderr,
                                      [success |-> FALSE, error |-> outcome.stderr])
                     ELSE IF outcome.returncode # 0
                     THEN MCPResponse(<<"Error applying Terraform plan: ">>
                                          \o outcome.stderr,
                                      [success |-> FALSE, error |-> outcome.stderr,
                                       command |-> CommandLine(cmd)])
                     ELSE MCPResponse(<<"Terraform plan applied successfully.", "\n", "\n">>
                                          \o outcome.stdout,
                                      [success |-> TRUE, raw_output |-> outcome.stdout,
                                       command |-> CommandLine(cmd)]),
                  !.pc = "called"]
    /\ UNCHANGED <<pc, locals, result, escaped, fs, trace, sample, analysis>>

\* bool(service) of an optional string.
Truthy(service) == service # None /\ service[1] # ""

\* str.capitalize() of the keys of the catalog.
Capitalize(svc) ==
    CASE svc = "compute" -> "Compute"
      [] svc = "storage" -> "Storage"
      [] svc = "container" -> "Container"
      [] svc = "sql" -> "Sql"
      [] svc = "iam" -> "Iam"
      [] svc = "cloudrun" -> "Cloudrun"
      [] svc = "bigquery" -> "Bigquery"

\* str(service) inside an f-string.
Str(service) == IF service = None THEN "None" ELSE service[1]

\* gcp_provider_handlers.py lines 292-299: the lines of one service.
ServiceLines(pair) ==
    <<(<<"## ", Capitalize(pair[1]), " Resources">>)>>
    \o [i \in 1..Len(pair[2]) |->
            <<"- **", pair[2][i], "**: ", "description", " ",
              "[Documentation](", "documentation_url", ")">>]
    \o <<(<<>>)>>

RECURSIVE ResourceLines(_)
ResourceLines(resources) ==
    IF resources = <<>> THEN <<>>
    ELSE ServiceLines(Head(resources)) \o ResourceLines(Tail(resources))

\* A name that is no key of the catalog selects nothing.
list_provider_resources_filtered(service) ==
    LET resources == IF Truthy(service)
                     THEN Only(service[1], GCP_PROVIDER_RESOURCES)
                     ELSE GCP_PROVIDER_RESOURCES
    IN  IF resources = <<>>
        THEN MCPResponse(<<"No resources found for service: ", Str(service)>>,
                         [success |-> FALSE,
                          error |-> <<"No resources found for service: ", Str(service)>>])
        ELSE MCPResponse(Join(<<(<<"# GCP Terraform Provider Resources", "\n">>)>>
                                  \o ResourceLines(resources),
                              <<"\n">>),
                         [success |-> TRUE,
                          services |-> Keys(resources),
                          resources |-> resources])

\* gcp_provider_handlers.py lines 275-308.
list_provider_resources(service) ==
    LET resources == IF Truthy(service) /\ In(service[1], GCP_PROVIDER_RESOURCES)
                     THEN Only(service[1], GCP_PROVIDER_RESOURCES)
                     ELSE GCP_PROVIDER_RESOURCES
    IN  IF resources = <<>>
        THEN MCPResponse(<<"No resources found for service: ", Str(service)>>,
                         [success |-> FALSE,
                          error |-> <<"No resources found for service: ",
                                      Str(service)>>])
        ELSE MCPResponse(Join(<<(<<"# GCP Terraform Provider Resources", "\n">>)>>
                                  \o ResourceLines(resources),
                              <<"\n">>),
                         [success |-> TRUE,
                          services |-> Keys(resources),
                          resources |-> resources])

\* The listing handler runs to its return.
ListProviderResources ==
    /\ tool.pc = "handler"
    /\ tool.handler = "list_provider_resources"
    /\ tool' = [tool EXCEPT !.value = list_provider_resources(tool.args.service),
                            !.pc = "called"]
    /\ UNCHANGED <<pc, locals, result, escaped, fs, trace, sample, analysis>>

\* .content of what the call gave: the string of an MCPResponse; a
\* coroutine has no such attribute.
ReadContent ==
    /\ tool.pc = "called"
    /\ tool' = [tool EXCEPT
                   !.out = IF "content" \in DOMAIN tool.value
                           THEN [returned |-> tool.value.content]
                           ELSE [raised |-> "AttributeError"],
                   !.pc = "done"]
    /\ UNCHANGED <<pc, locals, result, escaped, fs, trace, sample, analysis>>

NextTools ==
    \/ CallTool
    \/ CallCoroutineFunction
    \/ Await
    \/ CallHandler
    \/ PlanFileChanges
    \/ ApplyCheck
    \/ ApplyRun
    \/ ListProviderResources
    \/ ReadContent

SpecTools == Init /\ [][NextTools]_vars

(***************************************************************************)
(* Vocabulary of the claims.                                               *)
(***************************************************************************)
Done(c) == pc[c] = "done"
Happened(c, step) == \E i \in 1..Len(trace[c]) : trace[c][i] = step
Responded(c) == "success" \in DOMAIN result[c].metadata
Succeeded(c) == Responded(c) /\ result[c].metadata.success
Failed(c) == Responded(c) /\ ~result[c].metadata.success

\* The fixed texts that open the content of a failure.
ErrorMessages ==
    {"Invalid module ID: ", "Error fetching module details: ",
     "Error downloading module: ",
     "An error occurred while analyzing the Terraform module: "}

\* The positions of the separators of an identifier.
Slashes(id) == {i \in 1..Len(id) : id[i] = "/"}

\* An identifier of two separators, one of whose three segments is empty.
HasEmptySegment(id) ==
    /\ Cardinality(Slashes(id)) = 2
    /\ \/ id[1] = "/"
       \/ id[Len(id)] = "/"
       \/ \E i \in 1..(Len(id) - 1) : id[i] = "/" /\ id[i + 1] = "/"

\* The stage of section 4.5 a step belongs to.
StageOf(step) ==
    IF step \in {"CreateScratch", "WriteManifest", "RunInit", "LocateModuleDir"}
    THEN "MaterializeSource"
    ELSE step

\* The stages of a trace in order, each once for its run of steps.
RECURSIVE Stages(_)
Stages(steps) ==
    IF steps = <<>> THEN <<>>
    ELSE LET rest == Stages(Tail(steps))
             stage == StageOf(Head(steps))
         IN  IF rest # <<>> /\ Head(rest) = stage THEN rest ELSE <<stage>> \o rest

\* terraform init left no directory that either strategy finds.
NothingToFind(modules) ==
    \/ ~modules.exists
    \/ \A i \in 1..Len(modules.entries) : ~StartsWith(modules.entries[i], AnalyzedModule)

(***************************************************************************)
(* C1.  No exception leaves analyze_module: a finished call has returned a *)
(* response, and a call that did not reach the report returned a failure   *)
(* (success false) whose content opens with one of the fixed messages.     *)
(***************************************************************************)
C1_NoEscape ==
    \A c \in Calls :
        /\ escaped[c] = NoException
        /\ Done(c) =>
             /\ Responded(c)
             /\ trace[c][Len(trace[c])] # "Render" =>
                  /\ ~result[c].metadata.success
                  /\ "error" \in DOMAIN result[c].metadata
                  /\ result[c].content # <<>>
                  /\ result[c].content[1] \in ErrorMessages

\* A read of README.md raised and the call returned the failure.
C1_Witness ==
    \E c \in Calls :
        /\ Done(c)
        /\ Len(trace[c]) > 1
        /\ trace[c][Len(trace[c]) - 1] = "ReadReadme"
        /\ Failed(c)
        /\ result[c].metadata.error = UnicodeDecodeError.str

(***************************************************************************)
(* C2.  After ParseIdentifier, an identifier with exactly two '/' is split *)
(* at them into namespace, name and provider and the next step is the      *)
(* registry lookup; any other identifier has got the 'Invalid module ID'   *)
(* failure with no lookup and no subprocess.                               *)
(***************************************************************************)
C2_ParseIdentifier ==
    \A c \in Calls :
        Happened(c, "ParseIdentifier") =>
            LET id == module_id[c] IN
            IF Cardinality(Slashes(id)) = 2
            THEN /\ \A i, j \in Slashes(id) :
                        i < j => parts[c] = <<SubSeq(id, 1, i - 1),
                                              SubSeq(id, i + 1, j - 1),
                                              SubSeq(id, j + 1, Len(id))>>
                 /\ Len(trace[c]) = 1 => pc[c] = "lookup"
                 /\ Len(trace[c]) > 1 => trace[c][2] = "LookupVersion"
            ELSE /\ Done(c)
                 /\ Failed(c)
                 /\ result[c].content[1] = "Invalid module ID: "
                 /\ trace[c] = <<"ParseIdentifier">>
                 /\ \A d \in DirNames : ~fs[d].exists

\* a/b/a was split and the lookup was made; (a call with "a/b" is covered
\* by the other branch of the formula in the same run).
C2_Witness ==
    \E c \in Calls :
        /\ module_id[c] = <<"a", "/", "b", "/", "a">>
        /\ parts[c] = << <<"a">>, <<"b">>, <<"a">> >>
        /\ Happened(c, "LookupVersion")

(***************************************************************************)
(* C3.  An identifier with an empty segment is rejected as invalid before  *)
(* any registry request.                                                   *)
(***************************************************************************)
C3_EmptySegmentRejected ==
    \A c \in Calls :
        (Happened(c, "ParseIdentifier") /\ HasEmptySegment(module_id[c])) =>
            /\ Done(c)
            /\ Failed(c)
            /\ result[c].content[1] = "Invalid module ID: "
            /\ ~Happened(c, "LookupVersion")

(***************************************************************************)
(* C4.  A call whose registry answer has a status other than 200 has       *)
(* returned success false with a content that holds the body, and has      *)
(* made no scratch directory, written no manifest and run no subprocess.   *)
(***************************************************************************)
C4_RegistryError ==
    \A c \in Calls :
        (Happened(c, "LookupVersion") /\ details_response[c].status \notin {0, 200}) =>
            /\ Done(c)
            /\ Failed(c)
            /\ result[c].content =
                   <<"Error fetching module details: ">> \o details_response[c].text
            /\ Contains(result[c].content, details_response[c].text)
            /\ ~Happened(c, "CreateScratch")
            /\ ~Happened(c, "WriteManifest")
            /\ ~Happened(c, "RunInit")
            /\ temp_dir[c] = 0
            /\ \A d \in DirNames : fs[d].exists => fs[d].owner # c

\* The registry answered 404 with a body.
C4_Witness ==
    \E c \in Calls :
        /\ Done(c)
        /\ details_response[c].status = 404
        /\ details_response[c].text # <<>>
        /\ Failed(c)

(***************************************************************************)
(* C5.  A call whose terraform init exited non-zero has returned success   *)
(* false with the diagnostic stream in content and in metadata.error, and  *)
(* none of the later steps has run.                                        *)
(***************************************************************************)
C5_FetchError ==
    \A c \in Calls :
        (init_result[c].ran /\ init_result[c].returncode # 0) =>
            /\ Done(c)
            /\ Failed(c)
            /\ result[c].content =
                   <<"Error downloading module: ">> \o init_result[c].stderr
            /\ result[c].metadata.error = init_result[c].stderr
            /\ \A step \in {"LocateModuleDir", "ExtractVariables", "ExtractOutputs",
                            "ReadReadme", "Render"} : ~Happened(c, step)

\* terraform init exited 1 with a diagnostic.
C5_Witness ==
    \E c \in Calls :
        /\ Done(c)
        /\ init_result[c].ran
        /\ init_result[c].returncode = 1
        /\ init_result[c].stderr # <<>>

(***************************************************************************)
(* C6.  No scratch directory of a finished call remains: every directory   *)
(* on disk belongs to a call that has not returned, and the directory a    *)
(* finished call made is not on disk as its own.                           *)
(***************************************************************************)
C6_CleanupGuarantee ==
    /\ \A d \in DirNames : fs[d].exists => ~Done(fs[d].owner)
    /\ \A c \in Calls :
          (Done(c) /\ temp_dir[c] # 0) =>
              (~fs[temp_dir[c]].exists \/ fs[temp_dir[c]].owner # c)

\* A call that made a scratch directory and whose subprocess failed has
\* returned.
C6_Witness ==
    \E c \in Calls :
        /\ Done(c)
        /\ temp_dir[c] # 0
        /\ init_result[c].ran
        /\ init_result[c].returncode # 0
        /\ Happened(c, "Cleanup")

(***************************************************************************)
(* C7.  In a successful call the stages ran in the order ParseIdentifier,  *)
(* LookupVersion, MaterializeSource, ExtractVariables, ExtractOutputs,     *)
(* ReadReadme, Render, Cleanup: Cleanup last, after Render.                *)
(***************************************************************************)
C7_CleanupAfterRender ==
    \A c \in Calls :
        Succeeded(c) =>
            Stages(trace[c]) =
                <<"ParseIdentifier", "LookupVersion", "MaterializeSource",
                  "ExtractVariables", "ExtractOutputs", "ReadReadme", "Render", "Cleanup">>

(***************************************************************************)
(* C7, as amended.  In a successful call the stages ran in the order       *)
(* ParseIdentifier, LookupVersion, MaterializeSource, ExtractVariables,    *)
(* ExtractOutputs, ReadReadme, Cleanup, Render: the scratch directory is   *)
(* deleted after ReadReadme and before Render, which is the last stage.    *)
(***************************************************************************)
C7_CleanupBeforeRender ==
    \A c \in Calls :
        /\ Succeeded(c) =>
             Stages(trace[c]) =
                 <<"ParseIdentifier", "LookupVersion", "MaterializeSource",
                   "ExtractVariables", "ExtractOutputs", "ReadReadme", "Cleanup", "Render">>
        /\ pc[c] = "render" => ~fs[temp_dir[c]].exists

\* A call has returned a report with an input in it.
C7_Witness ==
    \E c \in Calls :
        /\ Succeeded(c)
        /\ result[c].metadata.module_data.inputs # <<>>

(***************************************************************************)
(* C8.  A call that reached the extraction stages returns success true,    *)
(* whatever files exist and whatever they hold (stated for the identifiers *)
(* of three non-empty segments, which is all the claim needs to fail).     *)
(***************************************************************************)
C8_ExtractionNeverFails ==
    \A c \in Calls :
        (/\ Done(c)
         /\ ~HasEmptySegment(module_id[c])
         /\ Happened(c, "ExtractVariables")) => Succeeded(c)

(***************************************************************************)
(* C9.  A call whose terraform init exited 0 and left no module directory  *)
(* for either strategy to find returns success true with an empty          *)
(* module_data (stated for the identifiers of three non-empty segments,    *)
(* which is all the claim needs to fail).                                  *)
(***************************************************************************)
C9_NoDirectoryIsEmptyData ==
    \A c \in Calls :
        (/\ Done(c)
         /\ ~HasEmptySegment(module_id[c])
         /\ init_result[c].ran
         /\ init_result[c].returncode = 0
         /\ NothingToFind(init_result[c].modules)) =>
            /\ Succeeded(c)
            /\ result[c].metadata.module_data = EmptyModuleData

(***************************************************************************)
(* C10.  When the registry answers 200 with an object that has no version  *)
(* field, the version is the empty string, the lookup does not fail (the   *)
(* next step makes the scratch directory), the manifest is written with    *)
(* version "" and a successful result reports the empty version.           *)
(***************************************************************************)
C10_MissingVersion ==
    \A c \in Calls :
        (/\ details_response[c].status = 200
         /\ details_response[c].json.kind = "object"
         /\ "version" \notin DOMAIN details_response[c].json.value) =>
            /\ latest_version[c] = <<>>
            /\ Len(trace[c]) = 2 => pc[c] = "mkdtemp"
            /\ pc[c] \in {"init", "locate"} =>
                 /\ fs[temp_dir[c]].manifest.exists
                 /\ Contains(fs[temp_dir[c]].manifest.text,
                             <<"  version = \"", "\"", "\n">>)
            /\ Succeeded(c) => result[c].metadata.version = <<>>
            /\ Done(c) /\ Len(trace[c]) > 2 => Happened(c, "CreateScratch")

\* A call without a version has run terraform init and returned its report.
C10_Witness ==
    \E c \in Calls :
        /\ details_response[c].status = 200
        /\ details_response[c].json.kind = "object"
        /\ "version" \notin DOMAIN details_response[c].json.value
        /\ Happened(c, "RunInit")
        /\ Succeeded(c)

(***************************************************************************)
(* Claims about lines 199-300 (SpecFiles).                                 *)
(***************************************************************************)
Analysed == analysis.stage = "done"

\* s ends with tail
EndsWith(s, tail) ==
    /\ Len(s) >= Len(tail)
    /\ SubSeq(s, Len(s) - Len(tail) + 1, Len(s)) = tail

\* What follows the README header and its blank line in a report.
ReadmeSection(content) ==
    SubSeq(content, IndexOf(content, 1, "## README") + 3, Len(content))

\* C11: a README longer than 2000 characters renders as its first 2000
\* characters followed by "...\n\n(README truncated due to length)"; a
\* README of at most 2000 characters, the empty one and one of exactly 2000
\* included, renders verbatim with nothing after it.
C11_TruncationLaw ==
    Analysed =>
        LET r == sample.readme_md
            section == ReadmeSection(analysis.result.content)
        IN  /\ Len(r) > 2000 =>
                section = SubSeq(r, 1, 2000)
                            \o <<"...", "\n", "\n", "(README truncated due to length)">>
            /\ Len(r) <= 2000 => section = r

C11_Witness ==
    /\ Analysed
    /\ Len(sample.readme_md) = 2001
    /\ EndsWith(analysis.result.content,
                <<"y", "...", "\n", "\n", "(README truncated due to length)">>)

\* A field of a descriptor as the report shows it.
Shown(descriptor, field, absent) ==
    IF field \in DOMAIN descriptor THEN descriptor[field] ELSE <<absent>>

RECURSIVE InputSubsections(_)
InputSubsections(inputs) ==
    IF inputs = <<>> THEN <<>>
    ELSE <<"### ">> \o Head(inputs).name \o <<"\n">>
         \o <<"- **Description:** ">>
         \o Shown(Head(inputs), "description", "No description provided") \o <<"\n">>
         \o <<"- **Type:** ">> \o Shown(Head(inputs), "type", "any") \o <<"\n">>
         \o <<"- **Default:** ">> \o Shown(Head(inputs), "default", "no default")
         \o <<"\n", "\n">>
         \o InputSubsections(Tail(inputs))

RECURSIVE OutputSubsections(_)
OutputSubsections(outputs) ==
    IF outputs = <<>> THEN <<>>
    ELSE <<"### ">> \o Head(outputs).name \o <<"\n">>
         \o <<"- **Description:** ">>
         \o Shown(Head(outputs), "description", "No description provided")
         \o <<"\n", "\n">>
         \o OutputSubsections(Tail(outputs))

\* The report down to the README header, as one text.
Layout(id, version, data) ==
    <<"# Module Analysis: ">> \o id \o <<"\n", "\n">>
    \o <<"**Version:** ">> \o version \o <<"\n">>
    \o <<"**Registry Link:** https://registry.terraform.io/modules/">> \o id
    \o <<"\n", "\n">>
    \o <<"## Inputs (", ToString(Len(data.inputs)), ")", "\n", "\n">>
    \o InputSubsections(data.inputs)
    \o <<"## Outputs (", ToString(Len(data.outputs)), ")", "\n", "\n">>
    \o OutputSubsections(data.outputs)
    \o <<"## README", "\n", "\n">>

\* C12: the report is, in this order, the title line with module_id, the
\* version line and the registry link, the '## Inputs (n)' header and one
\* subsection per input in extraction order with name, description, type
\* and default, the '## Outputs (m)' header and one subsection per output
\* with name and description, and the '## README' section; an absent
\* field shows as "No description provided", "any" or "no default", a
\* present one as its extracted value.
C12_FixedLayout ==
    Analysed =>
        LET layout == Layout(sample.module_id, sample.version, analysis.module_data)
            content == analysis.result.content
        IN  /\ Len(content) >= Len(layout)
            /\ SubSeq(content, 1, Len(layout)) = layout

C12_Witness ==
    /\ Analysed
    /\ Len(analysis.module_data.inputs) = 2
    /\ DOMAIN analysis.module_data.inputs[1] = {"name", "description", "type", "default"}
    /\ DOMAIN analysis.module_data.inputs[2] = {"name"}
    /\ Len(analysis.module_data.outputs) = 1
    /\ Contains(analysis.result.content, <<"- **Type:** ", "string", "\n">>)
    /\ Contains(analysis.result.content, <<"- **Type:** ", "any", "\n">>)

\* The lines of a report above its README header.
ReportLines(content) ==
    Split(SubSeq(content, 1, IndexOf(content, 1, "## README") - 1), "\n")

IsInputsHeader(line) == line # <<>> /\ line[1] = "## Inputs ("
IsOutputsHeader(line) == line # <<>> /\ line[1] = "## Outputs ("
IsSubsection(line) == line # <<>> /\ line[1] = "### "

\* The index of the first line of the kind, one past the end if none.
FirstLine(lines, kind) ==
    CHOOSE i \in 1..(Len(lines) + 1) :
        /\ i = Len(lines) + 1 \/ (lines[i] # <<>> /\ lines[i][1] = kind)
        /\ \A j \in 1..(i - 1) : lines[j] = <<>> \/ lines[j][1] # kind

\* The names of the subsections among the lines from..to, in order.
SubsectionNames(lines, from, to) ==
    LET found == SelectSeq(SubSeq(lines, from, to), IsSubsection)
    IN  [i \in 1..Len(found) |-> Tail(found[i])]

NamesOf(descriptors) == [i \in 1..Len(descriptors) |-> descriptors[i].name]

\* C13: in every successful result the count of the '## Inputs (n)' header
\* is the number of input subsections of content and the length of
\* metadata.module_data.inputs, likewise for the outputs, the names stand
\* in content in the order of module_data, and no result reports success
\* with an empty module_data and a non-zero count.
C13_ViewsConsistent ==
    Analysed =>
        LET lines == ReportLines(analysis.result.content)
            data == analysis.result.metadata.module_data
            i == FirstLine(lines, "## Inputs (")
            o == FirstLine(lines, "## Outputs (")
            inputs == SubsectionNames(lines, i + 1, o - 1)
            outputs == SubsectionNames(lines, o + 1, Len(lines))
        IN  /\ lines[i][2] = ToString(Len(inputs))
            /\ lines[i][2] = ToString(Len(data.inputs))
            /\ inputs = NamesOf(data.inputs)
            /\ lines[o][2] = ToString(Len(outputs))
            /\ lines[o][2] = ToString(Len(data.outputs))
            /\ outputs = NamesOf(data.outputs)
            /\ data = EmptyModuleData => lines[i][2] = "0" /\ lines[o][2] = "0"

(***************************************************************************)
(* Claims about the results of analyze_module (Spec).                      *)
(***************************************************************************)
\* The version the registry answered with, "" when it named none.
Resolved(c) ==
    IF "version" \in DOMAIN details_response[c].json.value
    THEN details_response[c].json.value.version
    ELSE <<>>

\* C14 as stated: every result has a content and a metadata record with
\* success, module_id, version and module_data, and on success module_id
\* is the input and version is the version resolved from the registry.
C14_EveryResultHasAllFields ==
    \A c \in Calls :
        Responded(c) =>
            /\ DOMAIN result[c] = {"content", "metadata"}
            /\ {"success", "module_id", "version", "module_data"}
                   \subseteq DOMAIN result[c].metadata
            /\ result[c].metadata.success =>
                   /\ result[c].metadata.module_id = module_id[c]
                   /\ result[c].metadata.version = Resolved(c)

\* C14, amended: every result has a content and a metadata record with
\* success; a success carries exactly success, module_id, version and
\* module_data, module_id being the input and version the version resolved
\* from the registry; a failure carries exactly success and error.
C14_ResultFields ==
    \A c \in Calls :
        Responded(c) =>
            /\ DOMAIN result[c] = {"content", "metadata"}
            /\ result[c].metadata.success \in BOOLEAN
            /\ IF result[c].metadata.success
               THEN /\ DOMAIN result[c].metadata
                         = {"success", "module_id", "version", "module_data"}
                    /\ result[c].metadata.module_id = module_id[c]
                    /\ result[c].metadata.version = Resolved(c)
               ELSE DOMAIN result[c].metadata = {"success", "error"}

\* A success for a module the registry has in version 1.2.0.
C14_Witness ==
    \E c \in Calls :
        /\ Succeeded(c)
        /\ module_id[c] = <<"a", "/", "b", "/", "a">>
        /\ result[c].metadata.module_id = <<"a", "/", "b", "/", "a">>
        /\ result[c].metadata.version = <<"1.2.0">>

\* The registry answered 200 with version 1.2.0, terraform init exited 0
\* and left the module directory, and the call is over.
ScenarioRan(c) ==
    /\ Done(c)
    /\ details_response[c].status = 200
    /\ details_response[c].json.kind = "object"
    /\ "version" \in DOMAIN details_response[c].json.value
    /\ details_response[c].json.value.version = <<"1.2.0">>
    /\ init_result[c].ran
    /\ init_result[c].returncode = 0
    /\ ~NothingToFind(init_result[c].modules)

\* variables.tf is one variable 'region' with a description, a type and a
\* default of one line each, outputs.tf is one output 'bucket_name' with a
\* description, README.md has 50 characters.
ScenarioFiles(description, type, default) ==
    /\ sample.variables_tf =
          <<"variable", " ", "\"", "region", "\"", " ", "{",
            "\n", " ", "description", " ", "=", " ", "\"">> \o description \o <<"\"",
            "\n", " ", "type", " ", "=", " ">> \o type \o <<
            "\n", " ", "default", " ", "=", " ">> \o default \o <<"\n", "}", "\n">>
    /\ FindBlocks(sample.outputs_tf, "output")[1][1] = <<"bucket_name">>
    /\ Contains(sample.outputs_tf, <<"description", " ", "=", " ", "\"", "b", "\"", "\n">>)
    /\ Len(sample.readme_md) = 50

\* C15: in that scenario the result is a success, module_data.inputs is
\* the one variable with its name, description, type and default,
\* module_data.outputs has one entry, and content holds '## Inputs (1)',
\* '## Outputs (1)' and the README verbatim, without the truncation marker.
C15_EndToEnd ==
    \A c \in Calls :
        \A default \in {<<"\"", "x", "\"">>, <<"[", "]">>} :
            ScenarioRan(c) /\ ScenarioFiles(<<"r">>, <<"string">>, default) =>
                /\ Succeeded(c)
                /\ result[c].metadata.module_data.inputs =
                      <<[name |-> <<"region">>, description |-> <<"r">>,
                         type |-> <<"string">>, default |-> default]>>
                /\ Len(result[c].metadata.module_data.outputs) = 1
                /\ result[c].metadata.module_data.outputs[1].name = <<"bucket_name">>
                /\ Contains(result[c].content, <<"## Inputs (", "1", ")">>)
                /\ Contains(result[c].content, <<"## Outputs (", "1", ")">>)
                /\ EndsWith(result[c].content, <<"## README", "\n", "\n">> \o sample.readme_md)
                /\ ~Contains(result[c].content, <<"(README truncated due to length)">>)

\* The scenario has run for a module whose variable defaults to a list.
C15_Witness ==
    \E c \in Calls :
        /\ ScenarioRan(c)
        /\ ScenarioFiles(<<"r">>, <<"string">>, <<"[", "]">>)
        /\ Happened(c, "Render")
        /\ result[c].metadata.module_data.inputs[1].default = <<"[", "]">>

(***************************************************************************)
(* Claims about calls that run together (SpecConcurrent).                  *)
(***************************************************************************)
\* The call is inside the with block of line 155.
Live(c) == pc[c] \in {"manifest", "init", "locate", "variables", "outputs", "readme", "cleanup"}

\* The results of a call that runs alone and meets the same answers of the
\* registry and of terraform init, and the same files.
AloneResults(c) ==
    IF Cardinality(Slashes(module_id[c])) # 2
    THEN {InvalidIdResult(module_id[c])}
    ELSE IF details_response[c].status = 0
    THEN {ExceptionResult(ConnectError)}
    ELSE IF details_response[c].status # 200
    THEN {RegistryErrorResult(details_response[c].text)}
    ELSE IF ~init_result[c].ran
    THEN {ExceptionResult(OSError), ExceptionResult(FileNotFoundError)}
    ELSE IF init_result[c].returncode # 0
    THEN {DownloadErrorResult(init_result[c].stderr)}
    ELSE IF ~init_result[c].modules.exists
    THEN {ExceptionResult(FileNotFoundError)}
    ELSE {SuccessResult(module_id[c], details_response[c].json.value.version,
                        IF NothingToFind(init_result[c].modules)
                        THEN EmptyModuleData
                        ELSE [inputs |-> ExtractInputs(sample.variables_tf),
                              outputs |-> ExtractOutputs(sample.outputs_tf),
                              resources |-> <<>>,
                              readme |-> sample.readme_md])}

\* Each live call has a directory of its own that holds what the call put
\* there, and a finished call has the result it has when run alone.
Isolated ==
    /\ \A c1, c2 \in Calls :
          c1 # c2 /\ Live(c1) /\ Live(c2) => temp_dir[c1] # temp_dir[c2]
    /\ \A c \in Calls :
          Live(c) =>
              /\ fs[temp_dir[c]].exists
              /\ fs[temp_dir[c]].owner = c
              /\ pc[c] # "manifest" =>
                    fs[temp_dir[c]].manifest =
                        File(ManifestText(parts[c][1], parts[c][2], parts[c][3],
                                          latest_version[c]))
              /\ pc[c] \notin {"manifest", "init"} =>
                    fs[temp_dir[c]].modules = init_result[c].modules
    /\ \A c \in Calls : Done(c) => Responded(c) /\ result[c] \in AloneResults(c)

\* A step of a call leaves the directories, the module_data and the result
\* of the other calls as they are.
OwnOnly ==
    \A c \in Calls :
        pc'[c] # pc[c] =>
            /\ \A d \in DirNames \ {temp_dir[c], temp_dir'[c]} : fs'[d] = fs[d]
            /\ \A other \in Calls \ {c} :
                  /\ module_data'[other] = module_data[other]
                  /\ result'[other] = result[other]

\* C16: under every interleaving of the calls, each call makes and uses a
\* scratch directory that no other live call has, no call reads, writes or
\* deletes the directory or the module_data of another, and the result of
\* each call is the result it has when it runs alone with the same
\* external responses.
C16_Isolation == []Isolated /\ [][OwnOnly]_vars

\* Two calls read their module directories at the same time.
C16_Witness ==
    \E c1, c2 \in Calls :
        /\ c1 # c2
        /\ pc[c1] = "outputs"
        /\ pc[c2] = "readme"
        /\ module_data[c1].inputs # <<>>
        /\ module_data[c2].outputs # <<>>
        /\ temp_dir[c1] # temp_dir[c2]

(***************************************************************************)
(* Claims about the steps of one call (Spec).                              *)
(***************************************************************************)
\* How many times the call has taken the step.
Times(c, step) == Cardinality({i \in 1..Len(trace[c]) : trace[c][i] = step})

\* C17: in one call the registry is asked at most once and terraform init
\* is run at most once, whatever they answer, and no stage is taken a
\* second time after it failed.
C17_NoRetries ==
    \A c \in Calls :
        /\ Times(c, "LookupVersion") <= 1
        /\ Times(c, "RunInit") <= 1
        /\ \A step \in {"ParseIdentifier", "CreateScratch", "WriteManifest",
                          "LocateModuleDir", "ExtractVariables", "ExtractOutputs",
                          "ReadReadme", "Render"} : Times(c, step) <= 1
        /\ Failed(c) => pc[c] = "done"

\* terraform init failed, and the call ended there.
C17_Witness ==
    \E c \in Calls :
        /\ Failed(c)
        /\ init_result[c].ran
        /\ init_result[c].returncode # 0
        /\ Times(c, "LookupVersion") = 1
        /\ Times(c, "RunInit") = 1

(***************************************************************************)
(* Claims about the blocks found in variables.tf and outputs.tf            *)
(* (SpecFiles).                                                            *)
(***************************************************************************)
\* The pairs the extractor is to yield for a file written from the blocks.
PairsOf(blocks) == [i \in 1..Len(blocks) |-> <<(<<blocks[i][1]>>), blocks[i][2]>>]

FirstsOf(pairs) == [i \in 1..Len(pairs) |-> pairs[i][1]]

\* C19: the extractor yields one (name, body) pair per block of the shape
\* keyword "name" { body }, in the order of the source, the name being the
\* quoted name and the body the text between the '{' and the first '}'
\* after it; blocks of one name yield an entry each; an empty text and a
\* text without a block yield the empty sequence; module_data.inputs and
\* module_data.outputs keep the order.
C19_BlockExtraction ==
    Analysed =>
        /\ \A blocks \in BlockLists : \A fill \in Fills :
              /\ sample.variables_tf = Written("variable", blocks, fill) =>
                    analysis.var_blocks = PairsOf(blocks)
              /\ sample.outputs_tf = Written("output", blocks, fill) =>
                    analysis.out_blocks = PairsOf(blocks)
        /\ \A i \in 1..Len(analysis.var_blocks) :
              Contains(sample.variables_tf,
                       <<"\"">> \o analysis.var_blocks[i][1] \o <<"\"">>)
              /\ Contains(sample.variables_tf,
                          <<"{">> \o analysis.var_blocks[i][2] \o <<"}">>)
        /\ ~Contains(sample.variables_tf, <<"variable">>) => analysis.var_blocks = <<>>
        /\ ~Contains(sample.outputs_tf, <<"output">>) => analysis.out_blocks = <<>>
        /\ NamesOf(analysis.module_data.inputs) = FirstsOf(analysis.var_blocks)
        /\ NamesOf(analysis.module_data.outputs) = FirstsOf(analysis.out_blocks)

\* Two blocks of one name with different bodies, and text around them.
C19_Witness ==
    /\ Analysed
    /\ sample.variables_tf =
          Written("variable",
                  <<(<<"y", AttributeLine("description", <<"\"", "d", "\"">>) \o <<"\n">> >>),
                    (<<"y", <<"\n">> >>)>>,
                  <<"#", " ", "c", "\n">>)
    /\ Len(analysis.var_blocks) = 2
    /\ analysis.var_blocks[1][1] = analysis.var_blocks[2][1]
    /\ analysis.var_blocks[1][2] # analysis.var_blocks[2][2]
    /\ Len(analysis.module_data.inputs) = 2

\* The attributes set in a text.
AttributesIn(text) == {attr \in {"description", "type", "default"} : Contains(text, <<attr>>)}

\* C20: when the body of a variable block holds a '}' before the brace
\* that closes the block, a nested sub-block or any other, the extracted
\* body ends right before that first '}': what is set after it is not in
\* the body and is not extracted, and the block is reported with its name.
C20_NestedBraceTruncation ==
    Analysed =>
        /\ \A i \in 1..Len(analysis.var_blocks) :
              ~Contains(analysis.var_blocks[i][2], <<"}">>)
        /\ \A before \in BeforeBrace : \A after \in AfterBrace :
              sample.variables_tf = Tf("variable", "x", before \o <<"}">> \o after) =>
                  /\ analysis.var_blocks = <<(<<(<<"x">>), before>>)>>
                  /\ Len(analysis.module_data.inputs) = 1
                  /\ analysis.module_data.inputs[1].name = <<"x">>
                  /\ DOMAIN analysis.module_data.inputs[1]
                        = {"name"} \cup AttributesIn(before)
                  /\ "description" \notin DOMAIN analysis.module_data.inputs[1]

\* A block with a type, a validation sub-block and then a description.
C20_Witness ==
    /\ Analysed
    /\ Contains(sample.variables_tf, <<"validation", " ", "{">>)
    /\ Contains(sample.variables_tf, <<"}", "\n", " ", "description">>)
    /\ Len(analysis.module_data.inputs) = 1
    /\ DOMAIN analysis.module_data.inputs[1] = {"name", "type"}

\* Every extracted block body with the descriptor built from it and the
\* rest-of-line attributes its kind of block has.
Described ==
    {<<analysis.var_blocks[i][2], analysis.module_data.inputs[i], {"type", "default"}>> :
        i \in 1..Len(analysis.var_blocks)}
    \cup {<<analysis.out_blocks[i][2], analysis.module_data.outputs[i], {"value"}>> :
        i \in 1..Len(analysis.out_blocks)}

\* Blanks and line breaks only in b from i to j, and at least one.
Blank(b, i, j) == i <= j /\ \A k \in i..j : b[k] \in {" ", "\n"}

\* At p of b stands description, '=', and a quoted text that opens at q and
\* closes at the next double quote r, with something between the two.
LiteralAt(b, p, q, r) ==
    /\ b[p] = "description"
    /\ \E e \in (p + 2)..(q - 2) :
          b[e] = "=" /\ Blank(b, p + 1, e - 1) /\ Blank(b, e + 1, q - 1)
    /\ b[q] = "\"" /\ b[r] = "\"" /\ r > q + 1
    /\ \A k \in (q + 1)..(r - 1) : b[k] # "\""

\* C21: the description of a variable or an output is exactly what stands
\* between the opening double quote of its description attribute and the
\* next double quote, a backslash before that quote making no difference;
\* a body without a description attribute yields a descriptor without a
\* description field.
C21_DescriptionIsQuotedText ==
    Analysed =>
        \A bd \in Described :
            LET b == bd[1]
                d == bd[2]
                at == {pqr \in (1..Len(b)) \X (1..Len(b)) \X (1..Len(b)) :
                          LiteralAt(b, pqr[1], pqr[2], pqr[3])}
            IN  /\ ~Contains(b, <<"description">>) => "description" \notin DOMAIN d
                /\ "description" \in DOMAIN d <=> at # {}
                /\ \A pqr \in at :
                      (\A other \in at : pqr[1] <= other[1]) =>
                          d.description = SubSeq(b, pqr[2] + 1, pqr[3] - 1)

\* A description with an escaped quote in it: the text ends at the backslash.
C21_Witness ==
    /\ Analysed
    /\ Contains(sample.variables_tf, <<"\"", "s", "\\", "\"", "t", "\"">>)
    /\ Len(analysis.module_data.inputs) = 1
    /\ analysis.module_data.inputs[1].description = <<"s", "\\">>
    /\ Len(analysis.module_data.outputs) = 1
    /\ analysis.module_data.outputs[1].description = <<"s", "\\">>

\* Blanks only in b from i to j, and at least one.
Spaces(b, i, j) == i <= j /\ \A k \in i..j : b[k] = " "

\* At p of b stands attr, '=' and a value that starts at v, all on one line.
SingleLineAt(b, attr, p, v) ==
    /\ b[p] = attr
    /\ \E e \in (p + 2)..(v - 2) :
          b[e] = "=" /\ Spaces(b, p + 1, e - 1) /\ Spaces(b, e + 1, v - 1)
    /\ b[v] \notin {" ", "\n"}

\* The line of b from v on, without the blanks at its end.
Verbatim(b, v) ==
    LET n == CHOOSE k \in v..(Len(b) + 1) :
                 /\ (k = Len(b) + 1 \/ b[k] = "\n")
                 /\ \A m \in v..(k - 1) : b[m] # "\n"
        m == CHOOSE k \in v..(n - 1) :
                 b[k] # " " /\ \A j \in (k + 1)..(n - 1) : b[j] = " "
    IN  SubSeq(b, v, m)

Closed(s) ==
    /\ Cardinality({k \in 1..Len(s) : s[k] = "["}) = Cardinality({k \in 1..Len(s) : s[k] = "]"})
    /\ Cardinality({k \in 1..Len(s) : s[k] = "{"}) = Cardinality({k \in 1..Len(s) : s[k] = "}"})

\* C23: an attribute that is not in the body as a single-line assignment,
\* because it is missing, its value starts on the line after the '=', its
\* value runs over several lines or there is no blank around the '=',
\* leaves the descriptor without that field: no partial value is stored.
C23_AbsentUnlessSingleLine ==
    Analysed =>
        \A bd \in Described :
            LET b == bd[1]
                d == bd[2]
            IN  /\ \A attr \in bd[3] :
                      (~\E p \in 1..Len(b) : \E v \in 1..Len(b) :
                            SingleLineAt(b, attr, p, v) /\ Closed(Verbatim(b, v)))
                          => attr \notin DOMAIN d
                /\ (~\E p \in 1..Len(b) : \E q \in 1..Len(b) : \E r \in 1..Len(b) :
                          LiteralAt(b, p, q, r))
                      => "description" \notin DOMAIN d

\* C24: the module directory is .terraform/modules/analyzed_module when
\* that entry exists, whatever else the modules directory holds; when it
\* does not, it is the first entry of the listing whose name starts with
\* analyzed_module, the matching entries after it being ignored.
C24_ModuleDirDiscovery ==
    [][\A c \in Calls :
          (pc[c] = "locate" /\ pc'[c] = "variables") =>
              LET entries == fs[temp_dir[c]].modules.entries
                  named == {i \in 1..Len(entries) : entries[i] = AnalyzedModule}
                  hits == {i \in 1..Len(entries) : StartsWith(entries[i], AnalyzedModule)}
              IN  /\ module_dir'[c].dir = temp_dir[c]
                  /\ named # {} => module_dir'[c].entry = AnalyzedModule
                  /\ (named = {} /\ hits # {}) =>
                        \E i \in hits :
                            /\ \A j \in hits : i <= j
                            /\ module_dir'[c].entry = entries[i]]_vars

\* Two qualified entries and no conventional one: the first is taken.
C24_Witness ==
    \E c \in Calls :
        /\ pc[c] = "variables"
        /\ fs[temp_dir[c]].modules.entries = <<QualifiedY, QualifiedX>>
        /\ module_dir[c].entry = QualifiedY

\* C26: the module_data.readme of a successful result is the whole text of
\* README.md, also when the report shows only its first 2000 characters;
\* rendering leaves module_data as the extraction made it.
C26_ReadmeKeptWhole ==
    Analysed =>
        /\ analysis.result.metadata.success
        /\ analysis.result.metadata.module_data.readme = sample.readme_md
        /\ analysis.result.metadata.module_data = analysis.module_data

\* A README two characters over the limit: cut in the report, whole in
\* module_data.
C26_Witness ==
    /\ Analysed
    /\ Len(sample.readme_md) = 2002
    /\ EndsWith(analysis.result.content, <<"(README truncated due to length)">>)
    /\ ~Contains(analysis.result.content, <<"z">>)
    /\ Len(analysis.result.metadata.module_data.readme) = 2002
    /\ analysis.result.metadata.module_data.readme[2002] = "z"

\* C27: a block with nothing between its braces, and a block whose '{'
\* follows the quoted name without a blank, is not reported: no descriptor
\* stands for it, the header counts leave it out, the result is a success,
\* and the blocks before and after it are reported in the order written.
C27_SkippedBlocks ==
    Analysed =>
        \A before \in BlockLists : \A after \in BlockLists :
            LET kept == PairsOf(before \o after)
                count == ToString(Len(before) + Len(after))
            IN  /\ \A skipped \in Skipped("variable") :
                      sample.variables_tf =
                          Written("variable", before, <<>>) \o skipped
                              \o Written("variable", after, <<>>) =>
                          /\ analysis.var_blocks = kept
                          /\ NamesOf(analysis.module_data.inputs) = FirstsOf(kept)
                          /\ analysis.result.metadata.success
                          /\ Contains(analysis.result.content,
                                      <<"## Inputs (", count, ")">>)
                /\ \A skipped \in Skipped("output") :
                      sample.outputs_tf =
                          Written("output", before, <<>>) \o skipped
                              \o Written("output", after, <<>>) =>
                          /\ analysis.out_blocks = kept
                          /\ NamesOf(analysis.module_data.outputs) = FirstsOf(kept)
                          /\ analysis.result.metadata.success
                          /\ Contains(analysis.result.content,
                                      <<"## Outputs (", count, ")">>)

\* An empty block between two blocks of the shape.
C27_Witness ==
    /\ Analysed
    /\ Contains(sample.variables_tf, <<"}", "\n", "variable", " ", "\"", "s", "\"", " ", "{", "}",
                                       "\n", "variable", " ", "\"", "y", "\"">>)
    /\ NamesOf(analysis.module_data.inputs) = <<(<<"x">>), (<<"y">>)>>
    /\ Contains(analysis.result.content, <<"## Inputs (", "2", ")">>)

\* At p of b stands attr, then blanks or line breaks, '=', blanks or line
\* breaks, and at v the first symbol that is neither.
AssignedAt(b, attr, p, v) ==
    /\ b[p] = attr
    /\ \E e \in (p + 2)..(v - 2) :
          b[e] = "=" /\ Blank(b, p + 1, e - 1) /\ Blank(b, e + 1, v - 1)
    /\ b[v] \notin {" ", "\n"}

\* C28: the type, default or value of a descriptor comes from the first
\* place of the body where the attribute word is followed by blanks, '='
\* and blanks, whatever stands before the word: the end of a longer name
\* such as machine_type and a word inside the description text count.
C28_Unanchored ==
    Analysed =>
        \A bd \in Described : \A attr \in bd[3] :
            LET b == bd[1]
                d == bd[2]
                at == {pv \in (1..Len(b)) \X (1..Len(b)) : AssignedAt(b, attr, pv[1], pv[2])}
            IN  /\ attr \in DOMAIN d <=> at # {}
                /\ \A pv \in at :
                      (\A other \in at : pv[1] <= other[1]) => d[attr] = Verbatim(b, pv[2])

\* A body whose only attribute is machine_type.
C28_Witness ==
    /\ Analysed
    /\ Contains(sample.variables_tf, <<"machine_", "type", " ", "=", " ", "x">>)
    /\ Len(analysis.var_blocks) = 1
    /\ Cardinality({k \in 1..Len(analysis.var_blocks[1][2]) :
                       analysis.var_blocks[1][2][k] = "type"}) = 1
    /\ analysis.module_data.inputs[1].type = <<"x">>

(***************************************************************************)
(* Claims about the tools of main.py (SpecTools).                          *)
(***************************************************************************)
Returned == tool.pc = "done"

\* C25: every tool returns the content of the MCPResponse its handler
\* made: when a tool reads .content, what it reads from is a response, and
\* what it returns is the content of that response; so for
\* terraform_search_modules as for terraform_analyze_module.
C25_ToolsReturnContent ==
    /\ tool.pc = "called" => "content" \in DOMAIN tool.value
    /\ Returned =>
          /\ "returned" \in DOMAIN tool.out
          /\ "content" \in DOMAIN tool.value
          /\ tool.out.returned = tool.value.content

\* The file plan_file lies in the directory dir at path.
InDirectory(path, dir, plan_file) ==
    /\ plan_file # <<>>
    /\ plan_file[1] \notin {"/", ".."}
    /\ path = (IF dir[Len(dir)] = "/" THEN dir ELSE dir \o <<"/">>) \o plan_file

ApplyFinished == tool.handler = "apply_project" /\ tool.pc \in {"called", "done"}

\* C29: apply_project starts terraform apply only when the plan file was
\* found in the working directory at the check: not found, the result is
\* the failure 'Plan file ... not found' and no subprocess is started;
\* found, the subprocess is started exactly once with the plan file as its
\* argument.
C29_ApplyOnlyIfPlanInWorkingDir ==
    tool.handler = "apply_project" =>
        /\ tool.spawned # <<>> =>
              /\ Len(tool.checked) = 1
              /\ tool.checked[1].exists
              /\ InDirectory(tool.checked[1].path, tool.args.working_dir,
                             tool.args.plan_file)
        /\ ApplyFinished =>
              IF tool.checked[1].exists
              THEN /\ Len(tool.spawned) = 1
                   /\ tool.spawned[1].cmd[3] = tool.args.plan_file
              ELSE /\ tool.spawned = <<>>
                   /\ ~tool.value.metadata.success
                   /\ tool.value.metadata.error =
                         <<"Plan file ">> \o tool.args.plan_file \o <<" not found">>

\* C29, as amended.  apply_project starts terraform apply only when the
\* path it looked for existed at the check, and it looks once.  The path is
\* plan_file itself when plan_file begins with '/', and otherwise the
\* working directory, a '/' unless it ends in one, and plan_file: the
\* working directory itself for the empty string, a path outside it for a
\* plan_file that begins with '..'.  Path not found: the failure 'Plan file
\* ... not found' and no subprocess.  Path found: one subprocess,
\* terraform apply plan_file, run in the working directory, whatever has
\* become of the file since the check.
C29_ApplyOnlyAfterCheck ==
    tool.handler = "apply_project" =>
        LET dir == tool.args.working_dir
            plan_file == tool.args.plan_file
        IN  /\ Len(tool.checked) <= 1
            /\ Len(tool.spawned) <= 1
            /\ tool.checked # <<>> =>
                  tool.checked[1].path =
                      IF plan_file # <<>> /\ plan_file[1] = "/" THEN plan_file
                      ELSE IF dir[Len(dir)] = "/" THEN dir \o plan_file
                      ELSE dir \o <<"/">> \o plan_file
            /\ tool.spawned # <<>> =>
                  /\ tool.checked # <<>>
                  /\ tool.checked[1].exists
                  /\ tool.spawned[1] =
                        [cmd |-> <<(<<"terraform">>), (<<"apply">>), plan_file>>, cwd |-> dir]
            /\ ApplyFinished =>
                  IF tool.checked[1].exists
                  THEN Len(tool.spawned) = 1
                  ELSE /\ tool.spawned = <<>>
                       /\ ~tool.value.metadata.success
                       /\ tool.value.metadata.error =
                             <<"Plan file ">> \o plan_file \o <<" not found">>
                       /\ tool.value.content =
                             <<"Error: Plan file ">> \o plan_file
                                 \o <<" not found. Run terraform plan first.">>

\* A plan outside the working directory was applied, and the file is gone
\* by the time the tool returns.
C29_Witness ==
    /\ Returned
    /\ tool.handler = "apply_project"
    /\ tool.args.working_dir = <<"/", "w">>
    /\ tool.args.plan_file = <<"/", "p", "/", "tfplan">>
    /\ Len(tool.spawned) = 1
    /\ tool.value.metadata.success
    /\ ~tool.present

ListingFinished ==
    tool.handler = "list_provider_resources" /\ tool.pc \in {"called", "done"}

CatalogKeys == {"compute", "storage", "container", "sql", "iam", "cloudrun", "bigquery"}

\* C30: list_provider_resources never reports failure: for a key of the
\* catalog it gives that service alone with its resources, for every other
\* argument (None, the empty string, a name that is no key) it gives all
\* the services of the catalog with success true; the result 'No resources
\* found for service' is never returned.
C30_ListingNeverFails ==
    ListingFinished =>
        LET service == tool.args.service
            meta == tool.value.metadata
        IN  /\ meta.success
            /\ "error" \notin DOMAIN meta
            /\ tool.value.content[1] = "# GCP Terraform Provider Resources"
            /\ IF service # <<>> /\ service[1] \in CatalogKeys
               THEN /\ meta.services = service
                    /\ Len(meta.resources) = 1
                    /\ meta.resources[1][1] = service[1]
                    /\ \E i \in 1..Len(GCP_PROVIDER_RESOURCES) :
                          meta.resources[1] = GCP_PROVIDER_RESOURCES[i]
                    /\ Cardinality({k \in 1..Len(tool.value.content) :
                                       tool.value.content[k] = " Resources"}) = 1
               ELSE /\ {meta.services[i] : i \in 1..Len(meta.services)} = CatalogKeys
                    /\ Len(meta.services) = 7
                    /\ meta.resources = GCP_PROVIDER_RESOURCES
                    /\ Cardinality({k \in 1..Len(tool.value.content) :
                                       tool.value.content[k] = " Resources"}) = 7

\* A name that is no key of the catalog got the whole listing.
C30_Witness ==
    /\ Returned
    /\ tool.args.service = <<"pubsub">>
    /\ tool.value.metadata.success
    /\ Len(tool.value.metadata.services) = 7
    /\ "returned" \in DOMAIN tool.out
    /\ tool.out.returned = tool.value.content

====
